---- MODULE Spec2Model ----
(***************************************************************************)
(* Solar analemma engine: calendar index, orbital ephemeris, hour-angle    *)
(* resolution, horizontal transform and the three series generators        *)
(* (computeAnalemmaPoints, computeEquationOfTime, computeAnalemmaInset).    *)
(*                                                                         *)
(* Numbers.  A JavaScript number is modelled as a fixed-point integer that *)
(* is rounded after every operation, as a double is:                       *)
(*   - radians, degrees, unit-vector components and the Fourier            *)
(*     coefficients are counted in millionths (scale S);                   *)
(*   - minutes are counted in hundred-thousandths of a minute (scale MS);  *)
(*   - NaN and undefined (a missing field) are two reserved codes.         *)
(***************************************************************************)
EXTENDS Integers, Sequences, FiniteSets, TLC

VARIABLES pc, call, n, points, debugEnabled, printedKeys, logged, currentYear,
          app, effect, searches

vars == <<pc, call, n, points, debugEnabled, printedKeys, logged, currentYear,
         app, effect, searches>>

\* NaN and undefined are two reserved codes outside the range of every
\* number the model computes
NaN == -2147483647
Undef == -2147483646

S == 1000 * 1000
MS == 100 * 1000

----------------------------------------------------------------------------
(* Arithmetic of the number type.  The operations are functions on the    *)
(* integers, so that every operand is a value when it is used.            *)

Abs[x \in Int] == IF x < 0 THEN -x ELSE x

Sign[x \in Int] == IF x < 0 THEN -1 ELSE 1

\* a / b rounded to the nearest unit, halves away from zero (b > 0)
RDiv[a \in Int, b \in Int] == IF a >= 0 THEN (a + b \div 2) \div b ELSE -(((-a) + b \div 2) \div b)

\* x * y of two magnitudes at scale S, rounded to the nearest unit; the
\* product is formed from three-digit limbs so that no intermediate exceeds
\* 2^31
MulNat[x \in Nat, y \in Nat] ==
  LET m == (x \div 1000) * (y % 1000) + (x % 1000) * (y \div 1000)
  IN (x \div 1000) * (y \div 1000) + (m \div 1000)
     + (((m % 1000) * 1000 + (x % 1000) * (y % 1000) + 500000) \div 1000000)

\* a * b of two numbers at scale S
Mul[a \in Int, b \in Int] == Sign[a] * Sign[b] * MulNat[Abs[a], Abs[b]]

\* the JavaScript remainder a % b: truncated, with the sign of the dividend
JsMod[a \in Int, b \in Int] == IF a >= 0 THEN a % b ELSE -((-a) % b)

\* Math.PI, and its half and quarter, at scale S
HalfPi == 1570796
PI == 2 * HalfPi
QuarterPi == HalfPi \div 2

\* sine and cosine series on [0, pi/4], in Horner form; a2 is a * a
SinSeries[a \in Int, a2 \in Int] ==
  LET t4 == S - RDiv[a2, 72]
      t3 == S - RDiv[Mul[a2, t4], 42]
      t2 == S - RDiv[Mul[a2, t3], 20]
      t1 == S - RDiv[Mul[a2, t2], 6]
  IN Mul[a, t1]

SinPoly[a \in Int] == SinSeries[a, Mul[a, a]]

CosSeries[a2 \in Int] ==
  LET u4 == S - RDiv[a2, 56]
      u3 == S - RDiv[Mul[a2, u4], 30]
      u2 == S - RDiv[Mul[a2, u3], 12]
  IN S - RDiv[Mul[a2, u2], 2]

CosPoly[a \in Int] == CosSeries[Mul[a, a]]

\* the angle x brought into (-pi, pi]
Reduce[x \in Int] == IF x % (2 * PI) > PI THEN (x % (2 * PI)) - 2 * PI ELSE x % (2 * PI)

\* an angle of [0, pi] folded into [0, pi/2]
Fold[a0 \in Int] == IF a0 > HalfPi THEN PI - a0 ELSE a0

\* sine and cosine on [0, pi/2]
SinQuadrant[a \in Int] == IF a <= QuarterPi THEN SinPoly[a] ELSE CosPoly[HalfPi - a]
CosQuadrant[a \in Int] == IF a <= QuarterPi THEN CosPoly[a] ELSE SinPoly[HalfPi - a]

\* sine and cosine on (-pi, pi]
SinReduced[t \in Int] == Sign[t] * SinQuadrant[Fold[Abs[t]]]
CosReduced[t \in Int] == (IF Abs[t] > HalfPi THEN -1 ELSE 1) * CosQuadrant[Fold[Abs[t]]]

\* Math.sin
Sin[x \in Int] == SinReduced[Reduce[x]]

\* Math.cos
Cos[x \in Int] == CosReduced[Reduce[x]]

\* atan(2^-i) for i = 0..20, in units of 1e-8 radian
AtanTable ==
  << 78539816, 46364761, 24497866, 12435499, 6241881, 3123983, 1562373,
     781234, 390623, 195312, 97656, 48828, 24414, 12207, 6104, 3052,
     1526, 763, 381, 191, 95 >>

Pow2[i \in Nat] == IF i = 0 THEN 1 ELSE 2 * Pow2[i - 1]

\* the angle of the vector (x, y), x >= 0, found by rotating it onto the
\* x axis in steps of atan(2^-i), p = 2^i; z accumulates the angle
\* (1e-8 radian)
Vectoring[x \in Int, y \in Int, z \in Int, i \in Nat, p \in Nat] ==
  IF i > Len(AtanTable) - 1 \/ y = 0 THEN z
  ELSE Vectoring[x + Sign[y] * (y \div p), y - Sign[y] * (x \div p),
                 z + Sign[y] * AtanTable[i + 1], i + 1, 2 * p]

\* the angle of the vector (ax, ay) of the first quadrant
AtanQuadrant[ay \in Nat, ax \in Nat] ==
  IF ay = 0 THEN 0
  ELSE IF ax = 0 THEN HalfPi
  ELSE RDiv[Vectoring[ax * 500, ay * 500, 0, 0, 1], 100]

\* Math.atan2(y, x), in radians at scale S
Atan2[y \in Int, x \in Int] ==
  Sign[y] * ((IF x < 0 THEN PI ELSE 0) + Sign[x] * AtanQuadrant[Abs[y], Abs[x]])

\* the exact product a * b of two naturals below 2 * S, as <<hi, lo>> with
\* a * b = hi * S + lo
Wide[a \in Nat, b \in Nat] ==
  LET t == ((a \div 1000) * (b % 1000) + (a % 1000) * (b \div 1000)) * 1000 + (a % 1000) * (b % 1000)
  IN << (a \div 1000) * (b \div 1000) + t \div S, t % S >>

WideLeq[p \in Int \X Int, q \in Int \X Int] == p[1] < q[1] \/ (p[1] = q[1] /\ p[2] <= q[2])

\* the largest c in lo..hi with c * c <= w, w a wide product
SqrtBetween[w \in Int \X Int, lo \in Int, hi \in Int] ==
  IF lo >= hi THEN lo
  ELSE IF WideLeq[Wide[(lo + hi + 1) \div 2, (lo + hi + 1) \div 2], w]
       THEN SqrtBetween[w, (lo + hi + 1) \div 2, hi]
       ELSE SqrtBetween[w, lo, (lo + hi + 1) \div 2 - 1]

\* Math.asin on [-1, 1]: the angle of the vector (sqrt(1 - u^2), u)
Asin[u \in Int] == Atan2[u, SqrtBetween[Wide[S - u, S + u], 0, S]]

\* Math.max / Math.min; NaN or a missing argument gives NaN
IsNum[x \in Int] == x # NaN /\ x # Undef
MathMax[a \in Int, b \in Int] == IF ~IsNum[a] \/ ~IsNum[b] THEN NaN ELSE IF a >= b THEN a ELSE b
MathMin[a \in Int, b \in Int] == IF ~IsNum[a] \/ ~IsNum[b] THEN NaN ELSE IF a <= b THEN a ELSE b

\* v * S / d rounded, for 0 <= v and 0 < d < 2^31 / 100, by long division
\* two decimal digits at a time
DivWide[v \in Nat, d \in Nat] ==
  LET r1 == (v % d) * 100
      r2 == (r1 % d) * 100
      r3 == (r2 % d) * 100
  IN (v \div d) * S + (r1 \div d) * 10000 + (r2 \div d) * 100 + RDiv[r3, d]

deg2rad[d \in Int] == RDiv[Mul[d, PI], 180]
rad2deg[r \in Int] == Sign[r] * DivWide[Abs[r] * 180, PI]
normalizeDeg[d \in Int] == JsMod[JsMod[d, 360 * S] + 360 * S, 360 * S]

----------------------------------------------------------------------------
(* CalendarIndex *)

isLeapYear[y \in Int] == (JsMod[y, 4] = 0 /\ JsMod[y, 100] # 0) \/ JsMod[y, 400] = 0

daysInYear[y \in Int] == IF isLeapYear[y] THEN 366 ELSE 365

(* The built-in Date, in whole days since 1970-01-01 UTC (every time value
   used is a UTC midnight); an invalid Date is NaN. *)
DayFromYear[y \in Int] ==
  365 * (y - 1970) + ((y - 1969) \div 4) - ((y - 1901) \div 100) + ((y - 1601) \div 400)

InLeapYear[y \in Int] == DayFromYear[y + 1] - DayFromYear[y] = 366

\* a time value beyond 100,000,000 days from the epoch is not a date
TimeClip[d \in Int] == IF Abs[d] > 100000000 THEN NaN ELSE d

\* Date.UTC(year, 0, 1): a year from 0 to 99 stands for 1900 + year
DateUTC[year \in Int] ==
  LET yr == IF 0 <= year /\ year <= 99 THEN 1900 + year ELSE year
  IN TimeClip[DayFromYear[yr]]

YearSearch[d \in Int, y \in Int] ==
  IF DayFromYear[y] > d THEN YearSearch[d, y - 1]
  ELSE IF DayFromYear[y + 1] <= d THEN YearSearch[d, y + 1]
  ELSE y

\* getUTCFullYear
YearFromDay[d \in Int] == YearSearch[d, 1970 + (d \div 146097) * 400 + ((d % 146097) \div 366)]

\* the day numbers within a year at which the months begin, by leap flag
MonthStarts[leap \in BOOLEAN] ==
  LET k == IF leap THEN 1 ELSE 0
  IN << 0, 31, 59 + k, 90 + k, 120 + k, 151 + k, 181 + k, 212 + k, 243 + k, 273 + k, 304 + k, 334 + k >>

\* getUTCMonth (0..11)
MonthFromDay[d \in Int] ==
  LET y == YearFromDay[d]
      w == d - DayFromYear[y]
      st == MonthStarts[InLeapYear[y]]
  IN (CHOOSE m \in 1..12 : st[m] <= w /\ (m = 12 \/ w < st[m + 1])) - 1

\* getUTCDate (1..31)
DateFromDay[d \in Int] ==
  LET y == YearFromDay[d]
  IN d - DayFromYear[y] - MonthStarts[InLeapYear[y]][MonthFromDay[d] + 1] + 1

\* date.setUTCDate(day): the day-th day counted from the first of the
\* date's month, carried into the neighbouring months and years
SetUTCDate[t \in Int, day \in Int] ==
  IF t = NaN THEN NaN
  ELSE LET y == YearFromDay[t]
       IN TimeClip[DayFromYear[y] + MonthStarts[InLeapYear[y]][MonthFromDay[t] + 1] + day - 1]

\* String(v).padStart(2, "0")
PadStart2[s \in STRING] == IF Len(s) < 2 THEN "0" \o s ELSE s

NumToString[v \in Int] == IF v = NaN THEN "NaN" ELSE ToString(v)

\* `${yyyy}-${mm}-${dd}` of a Date
FormatDate[date \in Int] ==
  LET yyyy == IF date = NaN THEN NaN ELSE YearFromDay[date]
      mm == IF date = NaN THEN NaN ELSE MonthFromDay[date] + 1
      dd == IF date = NaN THEN NaN ELSE DateFromDay[date]
  IN NumToString[yyyy] \o "-" \o PadStart2[NumToString[mm]] \o "-" \o PadStart2[NumToString[dd]]

dateFromDayOfYear[year \in Int, day \in Int] == FormatDate[SetUTCDate[DateUTC[year], day]]

----------------------------------------------------------------------------
(* OrbitalEphemeris *)

\* gamma = (2 * Math.PI / nDays) * (n - 1 + 0.5); the quotient keeps two
\* guard digits
Gamma[day \in Int, nDays \in Int] == RDiv[RDiv[2 * PI * 100, nDays] * (2 * day - 1), 200]

\* solar declination (radians)
Declination[g \in Int] ==
  6918 - Mul[399912, Cos[g]] + Mul[70257, Sin[g]] - Mul[6758, Cos[2 * g]]
       + Mul[907, Sin[2 * g]] - Mul[2697, Cos[3 * g]] + Mul[1480, Sin[3 * g]]

\* 229.18 * v, v at scale S, in minutes at scale MS
Times229[v \in Int] == RDiv[22918 * v, 1000]

\* equation of time (minutes), as the main series computes it
EotMain[g \in Int] ==
  Times229[75 + Mul[1868, Cos[g]] - Mul[32077, Sin[g]] - Mul[14615, Cos[2 * g]]
              - Mul[40849, Sin[2 * g]]]

ObliquityComponent(g) == Times229[-Mul[32077, Sin[g]] - Mul[40849, Sin[2 * g]]]

\* the eccentricity component without its constant term 0.000075
EccentricityComponentNoConstant(g) == Times229[Mul[1868, Cos[g]] - Mul[14615, Cos[2 * g]]]

EccentricityComponent(g) == Times229[75 + Mul[1868, Cos[g]] - Mul[14615, Cos[2 * g]]]

----------------------------------------------------------------------------
(* HourAngleResolver and HorizontalTransform *)

\* hh * 60 + mm, in minutes at scale MS; NaN when a field is missing
ClockMinutes[hh \in Int, mm \in Int] == IF IsNum[hh] /\ IsNum[mm] THEN (hh * 60 + mm) * MS ELSE NaN

\* true solar time, normalised to [0, 1440) minutes
TrueSolarTime[localClockMinutes \in Int, eotMin \in Int, longitudeDeg \in Int, tz \in Int] ==
  IF ~IsNum[localClockMinutes] \/ ~IsNum[tz] \/ ~IsNum[longitudeDeg] THEN NaN
  ELSE LET LSTM == 15 * tz
           timeOffsetMin == eotMin + RDiv[4 * (longitudeDeg - LSTM), 10]
           trueSolarTimeMin == localClockMinutes + timeOffsetMin
       IN JsMod[JsMod[trueSolarTimeMin, 1440 * MS] + 1440 * MS, 1440 * MS]

\* H_deg = trueSolarTimeMin / 4 - 180, in degrees at scale S
HourAngleDeg[tst \in Int] == IF tst = NaN THEN NaN ELSE RDiv[tst * 10, 4] - 180 * S

\* the azimuth measured from south instead of north
azimuthFromSouth(E, N) == normalizeDeg[rad2deg[Atan2[E, N]] + 180 * S]

\* azimuthDeg = normalizeDeg(rad2deg(Math.atan2(E, N))): 0 = north, clockwise
azimuthDeg(E, N) == normalizeDeg[rad2deg[Atan2[E, N]]]

\* altitudeDeg = rad2deg(Math.asin(Math.max(-1, Math.min(1, U))))
altitudeDeg[U \in Int] == rad2deg[Asin[MathMax[-S, MathMin[S, U]]]]

\* a visibility test that counts the horizon itself as visible
visibleFromHorizon(altitude) == altitude >= 0

\* visible = altitudeDeg > 0
visible(altitude) == altitude > 0

\* the fields of a point that come from the ENU vector and the altitude
Observed[E \in Int, N \in Int, U \in Int, altitude \in Int] ==
  [E |-> E, N |-> N, U |-> U, altitudeDeg |-> altitude,
   azimuthDeg |-> azimuthDeg(E, N), visible |-> visible(altitude)]

\* the ENU unit vector of the Sun, from the sines and cosines of the
\* latitude, the declination and the hour angle
ENU[sinPhi \in Int, cosPhi \in Int, sinDecl \in Int, cosDecl \in Int, sinH \in Int, cosH \in Int] ==
  << Mul[cosDecl, sinH],
     Mul[cosPhi, sinDecl] - Mul[Mul[sinPhi, cosDecl], cosH],
     Mul[sinPhi, sinDecl] + Mul[Mul[cosPhi, cosDecl], cosH] >>

FromENU[v \in Int \X Int \X Int] == Observed[v[1], v[2], v[3], altitudeDeg[v[3]]]

\* the ENU unit vector, altitude and azimuth of the Sun
Horizontal[phi \in Int, decl \in Int, H_deg \in Int] ==
  IF H_deg = NaN
  THEN [E |-> NaN, N |-> NaN, U |-> NaN, altitudeDeg |-> NaN, azimuthDeg |-> NaN, visible |-> FALSE]
  ELSE FromENU[ENU[Sin[phi], Cos[phi], Sin[decl], Cos[decl],
                   Sin[deg2rad[H_deg]], Cos[deg2rad[H_deg]]]]

----------------------------------------------------------------------------
(* The series generators *)

\* inputs.year ?? new Date().getFullYear()
YearOf(c) == IF c.year = Undef THEN currentYear ELSE c.year

\* a clamp that lets hour 24 through
ClampHourTo24(hh) == MathMin[24, MathMax[0, hh]]

\* Math.min(23, Math.max(0, hh)) and Math.min(59, Math.max(0, mm))
ClampHour(hh) == MathMin[23, MathMax[0, hh]]
ClampMinute(mm) == MathMin[59, MathMax[0, mm]]

\* a true solar time brought below 1440 by one remainder only, which keeps
\* the sign of a negative sum
MainTrueSolarTimeOneRemainder(c, day) ==
  LET clock == ClockMinutes[ClampHour(c.hh), ClampMinute(c.mm)]
  IN IF ~IsNum[clock] THEN NaN
     ELSE JsMod[clock + EotMain[Gamma[day, daysInYear[YearOf(c)]]]
                + RDiv[4 * (c.longitudeDeg - 15 * c.tzOffsetHours), 10], 1440 * MS]

\* the true solar time computeAnalemmaPoints finds for a day
MainTrueSolarTime(c, day) ==
  TrueSolarTime[ClockMinutes[ClampHour(c.hh), ClampMinute(c.mm)],
                EotMain[Gamma[day, daysInYear[YearOf(c)]]], c.longitudeDeg, c.tzOffsetHours]

\* AnalemmaInsetPoint: the fields every point of a figure has
AnalemmaInsetPoint ==
  [azimuthDeg : Int, altitudeDeg : Int, visible : BOOLEAN, E : Int, N : Int, U : Int]

\* points.push({ dateISO, azimuthDeg, altitudeDeg, visible, E, N, U })
AnalemmaPoint[dateISO \in STRING, h \in AnalemmaInsetPoint] ==
  [dateISO |-> dateISO, azimuthDeg |-> h.azimuthDeg, altitudeDeg |-> h.altitudeDeg,
   visible |-> h.visible, E |-> h.E, N |-> h.N, U |-> h.U]

\* one iteration of the loop of computeAnalemmaPoints
MainPoint(c, day) ==
  AnalemmaPoint[dateFromDayOfYear[YearOf(c), day],
                Horizontal[deg2rad[c.latitudeDeg],
                           Declination[Gamma[day, daysInYear[YearOf(c)]]],
                           HourAngleDeg[MainTrueSolarTime(c, day)]]]

\* a declination that ignores the includeObliquity switch
InsetDeclinationAlways(g, includeObliquity) == Declination[g]

\* the declination and equation of time computeAnalemmaInset uses
InsetDeclination(g, includeObliquity) == IF includeObliquity THEN Declination[g] ELSE 0

\* an equation of time whose eccentricity component is added inside the
\* obliquity branch
InsetEotNested(g, includeObliquity, includeEccentricity) ==
  IF includeObliquity
  THEN ObliquityComponent(g) + (IF includeEccentricity THEN EccentricityComponent(g) ELSE 0)
  ELSE 0

InsetEot(g, includeObliquity, includeEccentricity) ==
  (IF includeObliquity THEN ObliquityComponent(g) ELSE 0)
  + (IF includeEccentricity THEN EccentricityComponent(g) ELSE 0)

\* the true solar time computeAnalemmaInset finds for a day
InsetTrueSolarTime(c, day) ==
  TrueSolarTime[ClockMinutes[c.hh, c.mm],
                InsetEot(Gamma[day, daysInYear[YearOf(c)]], c.includeObliquity, c.includeEccentricity),
                c.longitudeDeg, c.tzOffsetHours]

\* one iteration of the loop of computeAnalemmaInset
InsetPoint(c, day) ==
  Horizontal[deg2rad[c.latitudeDeg],
             InsetDeclination(Gamma[day, daysInYear[YearOf(c)]], c.includeObliquity),
             HourAngleDeg[InsetTrueSolarTime(c, day)]]

\* points.push({ dateISO, dayOfYear: n, eotMinutes, obliquityComponent,
\* eccentricityComponent }) with eotMinutes = obliquityComponent +
\* eccentricityComponent
EotRecord[dateISO \in STRING, dayOfYear \in Int, obliquityComponent \in Int, eccentricityComponent \in Int] ==
  [dateISO |-> dateISO, dayOfYear |-> dayOfYear,
   eotMinutes |-> obliquityComponent + eccentricityComponent,
   obliquityComponent |-> obliquityComponent,
   eccentricityComponent |-> eccentricityComponent]

\* one iteration of the loop of computeEquationOfTime
EotPoint(year, day) ==
  EotRecord[dateFromDayOfYear[year, day], day,
            ObliquityComponent(Gamma[day, daysInYear[year]]),
            EccentricityComponent(Gamma[day, daysInYear[year]])]

----------------------------------------------------------------------------
(* The diagnostic observer *)

_debugEnabled == debugEnabled

\* x.toFixed(6) of a number at scale S
Digits[v \in Int, k \in Int] == IF k = 0 THEN "" ELSE Digits[v \div 10, k - 1] \o ToString(v % 10)

toFixed6[x \in Int] ==
  (IF x < 0 THEN "-" ELSE "") \o ToString(Abs[x] \div S) \o "." \o Digits[Abs[x] % S, 6]

\* x.toFixed(6) of a number given to seven decimals, x at scale S and sub its
\* seventh decimal digit (signed): the magnitude is rounded to the nearest
\* 1 / S, a tie upwards, and the sign is that of the number
Round6[v \in Int] == (Abs[v] + 5) \div 10

toFixed6Fine[x \in Int, sub \in Int] ==
  (IF 10 * x + sub < 0 THEN "-" ELSE "") \o ToString(Round6[10 * x + sub] \div S)
  \o "." \o Digits[Round6[10 * x + sub] % S, 6]

\* `${v}` of an integer field, or of a missing one
Template(v) == IF v = Undef THEN "undefined" ELSE IF v = NaN THEN "NaN" ELSE ToString(v)

\* `${tz}` of a time-zone offset at scale S (whole and half hours)
TemplateHours(v) ==
  IF ~IsNum[v] THEN Template(v)
  ELSE (IF v < 0 THEN "-" ELSE "") \o ToString(Abs[v] \div S)
       \o (IF Abs[v] % S = 0 THEN "" ELSE "." \o ToString((Abs[v] % S) \div (S \div 10)))

MainKey(c) ==
  "main:" \o toFixed6Fine[c.latitudeDeg, c.latitudeSub] \o ":" \o toFixed6[c.longitudeDeg] \o ":" \o Template(c.hh)
  \o ":" \o Template(c.mm) \o ":" \o TemplateHours(c.tzOffsetHours) \o ":" \o Template(YearOf(c))

InsetKey(c) ==
  "inset:" \o toFixed6Fine[c.latitudeDeg, c.latitudeSub] \o ":" \o toFixed6[c.longitudeDeg] \o ":" \o Template(c.hh)
  \o ":" \o Template(c.mm) \o ":" \o TemplateHours(c.tzOffsetHours) \o ":" \o Template(YearOf(c))
  \o ":" \o (IF c.includeObliquity THEN "1" ELSE "0")
  \o ":" \o (IF c.includeEccentricity THEN "1" ELSE "0")

\* the payload of a diagnostic summary: its series, its inputs (with the
\* year the generator used) and its counts; the ranges and maxEnuStep, which
\* are figures of the visible points read by nothing, are left out
Payload(series, c, pts) ==
  [tag |-> "AnalemmaDebug", mode |-> "sky", series |-> series,
   inputs |-> [c EXCEPT !.year = YearOf(c)],
   counts |-> [totalDays |-> daysInYear[YearOf(c)],
               visibleDays |-> Cardinality({i \in 1..Len(pts) : pts[i].visible}),
               nearZenithDays |->
                 Cardinality({i \in 1..Len(pts) : pts[i].visible /\ pts[i].altitudeDeg >= 89 * S})]]

\* a _debugOnce that logs at every call
DebugAlways(key, payload) ==
  IF ~_debugEnabled
  THEN UNCHANGED <<printedKeys, logged>>
  ELSE /\ printedKeys' = printedKeys \cup {key}
       /\ logged' = Append(logged, payload)

\* a _debugOnce that records the key before it looks at the switch
DebugOnceKeyFirst(key, payload) ==
  IF key \in printedKeys
  THEN UNCHANGED <<printedKeys, logged>>
  ELSE /\ printedKeys' = printedKeys \cup {key}
       /\ logged' = IF _debugEnabled THEN Append(logged, payload) ELSE logged

\* _debugOnce(key, payload): logs once per key while debugging is enabled
DebugOnce(key, payload) ==
  IF ~_debugEnabled \/ key \in printedKeys
  THEN UNCHANGED <<printedKeys, logged>>
  ELSE /\ printedKeys' = printedKeys \cup {key}
       /\ logged' = Append(logged, payload)

----------------------------------------------------------------------------
(* Actions: a call of a generator, one loop iteration, the return *)

\* no generator has been called yet
NoCall ==
  [fn |-> "none", latitudeDeg |-> 0, longitudeDeg |-> 0, hh |-> 0, mm |-> 0,
   tzOffsetHours |-> 0, year |-> Undef, includeObliquity |-> TRUE, includeEccentricity |-> TRUE,
   latitudeSub |-> 0]

MainCall(lat, lon, hh, mm, tz, year) ==
  [fn |-> "main", latitudeDeg |-> lat, longitudeDeg |-> lon, hh |-> hh, mm |-> mm,
   tzOffsetHours |-> tz, year |-> year, includeObliquity |-> TRUE, includeEccentricity |-> TRUE,
   latitudeSub |-> 0]

InsetCall(lat, lon, hh, mm, tz, year, io, ie) ==
  [fn |-> "inset", latitudeDeg |-> lat, longitudeDeg |-> lon, hh |-> hh, mm |-> mm,
   tzOffsetHours |-> tz, year |-> year, includeObliquity |-> io, includeEccentricity |-> ie,
   latitudeSub |-> 0]

EotCall(year) ==
  [fn |-> "eot", latitudeDeg |-> 0, longitudeDeg |-> 0, hh |-> 0, mm |-> 0,
   tzOffsetHours |-> 0, year |-> year, includeObliquity |-> TRUE, includeEccentricity |-> TRUE,
   latitudeSub |-> 0]

\* an entry that goes on with the array of the call before
CallKeepingPoints(c) ==
  /\ pc = "idle"
  /\ pc' = c.fn
  /\ call' = c
  /\ n' = 1
  /\ UNCHANGED <<points, debugEnabled, printedKeys, logged, currentYear,
               app, effect, searches>>

\* entry of computeAnalemmaPoints, computeAnalemmaInset, computeEquationOfTime
Call(c) ==
  /\ pc = "idle"
  /\ pc' = c.fn
  /\ call' = c
  /\ n' = 1
  /\ points' = << >>
  /\ UNCHANGED <<debugEnabled, printedKeys, logged, currentYear,
               app, effect, searches>>

\* a loop that keeps only the visible points
StepMainVisibleOnly ==
  /\ pc = "main"
  /\ n <= daysInYear[YearOf(call)]
  /\ points' = IF MainPoint(call, n).visible THEN Append(points, MainPoint(call, n)) ELSE points
  /\ n' = n + 1
  /\ UNCHANGED <<pc, call, debugEnabled, printedKeys, logged, currentYear,
               app, effect, searches>>

StepMain ==
  /\ pc = "main"
  /\ n <= daysInYear[YearOf(call)]
  /\ points' = Append(points, MainPoint(call, n))
  /\ n' = n + 1
  /\ UNCHANGED <<pc, call, debugEnabled, printedKeys, logged, currentYear,
               app, effect, searches>>

\* a return that hands back the visible points of the summary when it logs
ReturnMainVisible ==
  /\ pc = "main"
  /\ n > daysInYear[YearOf(call)]
  /\ DebugOnce(MainKey(call), Payload("main", call, points))
  /\ pc' = "idle"
  /\ points' = IF _debugEnabled THEN SelectSeq(points, LAMBDA q : q.visible) ELSE points
  /\ UNCHANGED <<call, n, debugEnabled, currentYear, app, effect, searches>>

ReturnMain ==
  /\ pc = "main"
  /\ n > daysInYear[YearOf(call)]
  /\ DebugOnce(MainKey(call), Payload("main", call, points))
  /\ pc' = "idle"
  /\ UNCHANGED <<call, n, points, debugEnabled, currentYear,
               app, effect, searches>>

StepInset ==
  /\ pc = "inset"
  /\ n <= daysInYear[YearOf(call)]
  /\ points' = Append(points, InsetPoint(call, n))
  /\ n' = n + 1
  /\ UNCHANGED <<pc, call, debugEnabled, printedKeys, logged, currentYear,
               app, effect, searches>>

ReturnInset ==
  /\ pc = "inset"
  /\ n > daysInYear[YearOf(call)]
  /\ DebugOnce(InsetKey(call), Payload("eot_inset", call, points))
  /\ pc' = "idle"
  /\ UNCHANGED <<call, n, points, debugEnabled, currentYear,
               app, effect, searches>>

StepEot ==
  /\ pc = "eot"
  /\ n <= daysInYear[call.year]
  /\ points' = Append(points, EotPoint(call.year, n))
  /\ n' = n + 1
  /\ UNCHANGED <<pc, call, debugEnabled, printedKeys, logged, currentYear,
               app, effect, searches>>

ReturnEot ==
  /\ pc = "eot"
  /\ n > daysInYear[call.year]
  /\ pc' = "idle"
  /\ UNCHANGED <<call, n, points, debugEnabled, printedKeys, logged, currentYear,
               app, effect, searches>>

----------------------------------------------------------------------------
(* Inputs *)

\* the largest clock hour and minute tried
MaxHour == 24
MaxMinute == 75

London == <<51500000, -130000>>
Equator == <<0, 0>>
Sydney == <<-33870000, 151210000>>

\* the longitude at which 12:00 of a zone on the Greenwich meridian is the
\* true solar noon of the given day
NoonLongitude(day, nDays) == RDiv[-(EotMain[Gamma[day, nDays]] * 10), 4]

\* the calls made: London at several clock times (LondonClock, InsetClock)
\* and years, other places, the equation of time of several years (EotYears)
Calls ==
  LET LondonClock == {<<10, 0>>, <<15, 0>>, <<-1, 0>>, <<MaxHour, 0>>,
                      <<10, MaxMinute>>, <<10, -5>>, <<MaxHour, MaxMinute>>}
      InsetClock == {<<10, 0>>, <<MaxHour, 0>>, <<10, MaxMinute>>}
      EotYears == {0, 50, 100, 1900, 2000, 2023, 2024}
  IN
  {MainCall(London[1], London[2], t[1], t[2], 0, 2024) : t \in LondonClock}
  \cup {MainCall(London[1], London[2], 10, 0, 0, y) : y \in {2023, 50, Undef}}
  \cup {MainCall(Equator[1], Equator[2], 12, 0, 0, 2024),
        MainCall(Equator[1], Equator[2], Undef, Undef, 0, 2024),
        MainCall(London[1], NoonLongitude(79, 366), 12, 0, 0, 2024),
        MainCall(Sydney[1], NoonLongitude(79, 366), 12, 0, 0, 2024)}
  \cup {InsetCall(London[1], London[2], t[1], t[2], 0, 2024, TRUE, TRUE) : t \in InsetClock}
  \cup {InsetCall(London[1], 0, 12, 0, 0, 2024, FALSE, FALSE),
        InsetCall(Sydney[1], Sydney[2], 15, 0, 10 * S, 2023, FALSE, FALSE),
        InsetCall(Equator[1], Equator[2], 6, 0, 0, 2023, FALSE, FALSE),
        InsetCall(London[1], London[2], 10, 0, 0, 2024, TRUE, FALSE),
        InsetCall(London[1], London[2], 10, 0, 0, 2024, FALSE, TRUE)}
  \cup {MainCall(London[1], 179500000, 23, 59, -12 * S, 2023),
        InsetCall(London[1], -179500000, 0, 0, 14 * S, 2023, TRUE, TRUE)}
  \cup {EotCall(y) : y \in EotYears}

\* the application before its first render has run its effects: the initial
\* values of useState (the browser's own zone being UTC), the geolocation
\* effect not yet run, no search started
Unmounted ==
  /\ app = [locationQuery |-> "", latitude |-> London[1],
            longitude |-> London[2], tzOffsetHours |-> 0,
            locationLabel |-> "London, GB", locationError |-> "undefined",
            isLoadingLocation |-> TRUE]
  /\ effect = [pc |-> "mount", lat |-> Undef, lon |-> Undef]
  /\ searches = << >>

\* the module as loaded by a host that has not set __ANAL_EMMA_DEBUG__ (the
\* test scripts): no call made, nothing logged
Init ==
  /\ pc = "idle"
  /\ call = NoCall
  /\ n = 0
  /\ points = << >>
  /\ debugEnabled = FALSE
  /\ printedKeys = {}
  /\ logged = << >>
  /\ currentYear = 2026
  /\ Unmounted

Next ==
  \/ \E c \in Calls : Call(c)
  \/ StepMain
  \/ ReturnMain
  \/ StepInset
  \/ ReturnInset
  \/ StepEot
  \/ ReturnEot

Spec == Init /\ [][Next]_vars

----------------------------------------------------------------------------
(* Properties *)

\* the index of the point the last loop iteration pushed (0 before the first)
Last == Len(points)

\* a generator has returned its series
Returned(fn) == pc = "idle" /\ call.fn = fn

\* C1: computeAnalemmaPoints and computeEquationOfTime return exactly
\* daysInYear(year) points, 365 or 366, whatever the location, clock time
\* and time-zone offset; during the loop the series holds the n - 1 points
\* of the days already done.
C1_SeriesLength ==
  /\ (pc \in {"main", "eot"} => Len(points) = n - 1 /\ n <= daysInYear[YearOf(call)] + 1)
  /\ (Returned("main") \/ Returned("eot") =>
        /\ Len(points) = daysInYear[YearOf(call)]
        /\ Len(points) \in {365, 366})

\* C1 witness: computeAnalemmaPoints has returned for an out-of-range clock
\* time in a leap year, with 366 points
C1_Witness ==
  Returned("main") /\ call.year = 2024 /\ call.hh = MaxHour /\ Len(points) = 366

\* The civil (proleptic Gregorian) date of day i of year y, written
\* year-month-day with two-digit month and day.
CivilLeap(y) == (y % 4 = 0 /\ y % 100 # 0) \/ y % 400 = 0

CivilMonthLengths(y) ==
  << 31, IF CivilLeap(y) THEN 29 ELSE 28, 31, 30, 31, 30, 31, 31, 30, 31, 30, 31 >>

RECURSIVE CivilMonthDay(_, _, _)
CivilMonthDay(y, m, d) ==
  IF d <= CivilMonthLengths(y)[m] THEN <<m, d>>
  ELSE CivilMonthDay(y, m + 1, d - CivilMonthLengths(y)[m])

TwoDigits(k) == IF k < 10 THEN "0" \o ToString(k) ELSE ToString(k)

CivilDateISO(y, i) ==
  LET md == CivilMonthDay(y, 1, i)
  IN ToString(y) \o "-" \o TwoDigits(md[1]) \o "-" \o TwoDigits(md[2])

\* C2 (as claimed): every generated series is sorted by day of year without
\* gaps or duplicates: the i-th EotPoint has dayOfYear = i, the dateISO
\* values are pairwise distinct, and the i-th dateISO is the date of day i of
\* the requested year.
C2_SeriesOrderedByDay ==
  (call.fn \in {"main", "eot"} /\ Last >= 1) =>
    /\ points[Last].dateISO = CivilDateISO(YearOf(call), Last)
    /\ (call.fn = "eot" => points[Last].dayOfYear = Last)
    /\ \A j \in 1..(Last - 1) : points[j].dateISO # points[Last].dateISO

\* the declination and true solar time behind the point the last iteration pushed
LastDeclination ==
  LET g == Gamma[Last, daysInYear[YearOf(call)]]
  IN IF call.fn = "inset" THEN InsetDeclination(g, call.includeObliquity) ELSE Declination[g]

LastTrueSolarTime ==
  IF call.fn = "inset" THEN InsetTrueSolarTime(call, Last) ELSE MainTrueSolarTime(call, Last)

\* Test 2 of test-analemma.js with the time-zone offset 0 the scenario names
London10 == MainCall(London[1], London[2], 10, 0, 0, 2024)

\* C3 (as claimed): a point of computeAnalemmaPoints whose true solar time is
\* before 720 min lies east of the meridian (E > 0, azimuth strictly between
\* 0 and 180 degrees), one after 720 min lies west (azimuth between 180 and
\* 360 degrees); the visible points of London at 10:00, tz 0, 2024 have
\* azimuths of roughly 100 to 150 degrees.
C3_MorningEastAfternoonWest ==
  (call.fn = "main" /\ Last >= 1 /\ LastTrueSolarTime # NaN) =>
    LET p == points[Last]
    IN /\ LastTrueSolarTime < 720 * MS =>
            p.E > 0 /\ 0 < p.azimuthDeg /\ p.azimuthDeg < 180 * S
       /\ LastTrueSolarTime > 720 * MS =>
            180 * S < p.azimuthDeg /\ p.azimuthDeg < 360 * S
       /\ (call = London10 /\ p.visible) =>
            90 * S <= p.azimuthDeg /\ p.azimuthDeg <= 160 * S

\* Test 1 of test-analemma.js written as the clock time 12:00 with tz 0
EquatorNoon == MainCall(Equator[1], Equator[2], 12, 0, 0, 2024)

\* C4: azimuth is measured from north.  Whenever the hour angle is 0 (true
\* solar time exactly 720 min) and the Sun is not at the zenith, the azimuth
\* of the point, in computeAnalemmaPoints and computeAnalemmaInset alike, is
\* 180 degrees when the declination is below the latitude and 0 degrees when
\* it is above; at the equator at 12:00 the point of 2024-01-01 has negative
\* declination and an azimuth within 5 degrees of 180, and the point of
\* 2024-07-01 has positive declination and an azimuth within 5 degrees of
\* 0/360.
C4_AzimuthFromNorth ==
  /\ (call.fn \in {"main", "inset"} /\ Last >= 1) =>
       LET phi == deg2rad[call.latitudeDeg]
       IN (LastTrueSolarTime = 720 * MS /\ LastDeclination # phi) =>
            points[Last].azimuthDeg = IF LastDeclination < phi THEN 180 * S ELSE 0
  /\ (call = EquatorNoon /\ Last = 1) =>
       /\ points[Last].dateISO = "2024-01-01"
       /\ LastDeclination < 0
       /\ Abs[points[Last].azimuthDeg - 180 * S] <= 5 * S
  /\ (call = EquatorNoon /\ Last = 183) =>
       /\ points[Last].dateISO = "2024-07-01"
       /\ LastDeclination > 0
       /\ (points[Last].azimuthDeg <= 5 * S \/ points[Last].azimuthDeg >= 355 * S)

\* C4 witness: a point south of the equator whose hour angle is exactly 0
\* with the Sun north of the zenith has been pushed, azimuth 0
C4_Witness ==
  /\ call.fn = "main" /\ Last >= 1
  /\ call.latitudeDeg = Sydney[1]
  /\ LastTrueSolarTime = 720 * MS
  /\ LastDeclination > deg2rad[call.latitudeDeg]
  /\ points[Last].azimuthDeg = 0

\* C5 (as claimed): for the input {kind: "solarNoon"}, which has no hh and
\* mm, computeAnalemmaPoints pushes the points of the clock time 12:00, each
\* with finite E, N, U, altitude and azimuth.
C5_SolarNoonIsTwelve ==
  (call.fn = "main" /\ call.hh = Undef /\ call.mm = Undef /\ Last >= 1) =>
    LET p == points[Last]
    IN /\ p = MainPoint([call EXCEPT !.hh = 12, !.mm = 0], Last)
       /\ IsNum[p.E] /\ IsNum[p.N] /\ IsNum[p.U]
       /\ IsNum[p.altitudeDeg] /\ IsNum[p.azimuthDeg]

\* the call with its hour put into [0,23] and its minute into [0,59], each
\* field on its own
WithClockInRange(c) ==
  [c EXCEPT !.hh = IF c.hh < 0 THEN 0 ELSE IF c.hh > 23 THEN 23 ELSE c.hh,
            !.mm = IF c.mm < 0 THEN 0 ELSE IF c.mm > 59 THEN 59 ELSE c.mm]

\* C6: computeAnalemmaPoints clamps an out-of-range clock time instead of
\* rejecting it.  For any numeric hour and minute the loop runs through all
\* the days to the return, and every point it pushes is the point of the call
\* whose hour is clamped into [0,23] and whose minute is clamped into [0,59],
\* each field independently: the clock minutes used are 60 times the clamped
\* hour plus the clamped minute, with no carry.
C6_ClockClamped ==
  (call.fn = "main" /\ IsNum[call.hh] /\ IsNum[call.mm]) =>
    LET c == WithClockInRange(call)
    IN /\ c.hh \in 0..23 /\ c.mm \in 0..59
       /\ ClockMinutes[ClampHour(call.hh), ClampMinute(call.mm)] = (60 * c.hh + c.mm) * MS
       /\ Last >= 1 => points[Last] = MainPoint(c, Last)
       /\ pc = "main" => n \in 1..(daysInYear[YearOf(call)] + 1) /\ Last = n - 1
       /\ Returned("main") => Last = daysInYear[YearOf(call)]

\* C6 witness: the call with hour and minute both above their ranges has
\* returned its series
C6_Witness ==
  /\ Returned("main")
  /\ call.hh = MaxHour /\ call.mm = MaxMinute
  /\ Len(points) = daysInYear[YearOf(call)]
  /\ points[Last] = MainPoint([call EXCEPT !.hh = 23, !.mm = 59], Last)

\* C7 (as claimed): computeAnalemmaInset with both switches on pushes, for
\* every day and every input, out-of-range hour and minute included, the
\* same E, N, U, altitude, azimuth and visible flag as computeAnalemmaPoints
\* does on the same input.
C7_InsetMatchesMain ==
  (call.fn = "inset" /\ call.includeObliquity /\ call.includeEccentricity /\ Last >= 1) =>
    LET m == MainPoint(call, Last)
    IN points[Last] = [azimuthDeg |-> m.azimuthDeg, altitudeDeg |-> m.altitudeDeg,
                       visible |-> m.visible, E |-> m.E, N |-> m.N, U |-> m.U]

\* C8: computeAnalemmaInset with both switches off runs through all the days
\* to its return, returns daysInYear(year) points, and all its points are the same:
\* identical E, N, U, altitude, azimuth and visible flag on every day.
C8_NoComponentsNoVariation ==
  (call.fn = "inset" /\ ~call.includeObliquity /\ ~call.includeEccentricity) =>
    /\ \A i \in 1..Last : points[i] = points[1]
    /\ pc = "inset" => n \in 1..(daysInYear[YearOf(call)] + 1) /\ Last = n - 1
    /\ Returned("inset") => Len(points) = daysInYear[YearOf(call)]

\* C8 witness: the series of a leap year with both switches off has been
\* returned, 366 equal points
C8_Witness ==
  /\ Returned("inset")
  /\ ~call.includeObliquity /\ ~call.includeEccentricity
  /\ Len(points) = 366
  /\ points[366] = points[1]

\* C9 (as claimed): every EotPoint has eotMinutes = obliquityComponent +
\* eccentricityComponent exactly, and that total is exactly the equation of
\* time computeAnalemmaPoints uses for the same day.
C9_EotSameTotalExactly ==
  (call.fn = "eot" /\ Last >= 1) =>
    LET p == points[Last]
    IN /\ p.eotMinutes = p.obliquityComponent + p.eccentricityComponent
       /\ p.eotMinutes = EotMain[Gamma[Last, daysInYear[YearOf(call)]]]

\* C9 (amended): every EotPoint has eotMinutes = obliquityComponent +
\* eccentricityComponent exactly; the equation of time computeAnalemmaPoints
\* uses for the same day, computed as one five-term product, agrees with
\* that total up to the rounding of the last digit only.
C9_EotSumOfComponents ==
  (call.fn = "eot" /\ Last >= 1) =>
    LET p == points[Last]
        g == Gamma[Last, daysInYear[YearOf(call)]]
    IN /\ p.eotMinutes = p.obliquityComponent + p.eccentricityComponent
       /\ p.dayOfYear = Last
       /\ Abs[p.eotMinutes - EotMain[g]] <= 1

\* C9 witness: an EotPoint whose total differs from the main series' value
\* in the last digit
C9_Witness ==
  /\ call.fn = "eot" /\ Last >= 1
  /\ points[Last].eotMinutes =
       points[Last].obliquityComponent + points[Last].eccentricityComponent
  /\ points[Last].eotMinutes # EotMain[Gamma[Last, daysInYear[YearOf(call)]]]

\* C10 (as claimed): for every year >= 0 and every day of it,
\* dateFromDayOfYear(year, day) is the date day - 1 days after January 1 of
\* that year: day 1 is <year>-01-01, the last day is <year>-12-31, and the
\* year part is always the input year.
C10_DateInRequestedYear ==
  (call.fn \in {"main", "eot"} /\ YearOf(call) >= 0 /\ Last >= 1) =>
    LET year == YearOf(call)
        date == dateFromDayOfYear[year, Last]
    IN /\ points[Last].dateISO = date
       /\ date = CivilDateISO(year, Last)
       /\ Last = 1 => date = ToString(year) \o "-01-01"
       /\ Last = daysInYear[year] => date = ToString(year) \o "-12-31"

-----------------------------------------------------------------------------
(* CalendarIndex called on its own: each helper is one synchronous call, so
   one action takes the arguments and leaves the value returned in points *)

CalendarCall(fn, year, day) == [fn |-> fn, year |-> year, day |-> day]

\* a leap rule without the century exceptions
JulianLeapYearCall(y) ==
  /\ pc = "idle"
  /\ call' = CalendarCall("isLeapYear", y, Undef)
  /\ points' = << JsMod[y, 4] = 0 >>
  /\ UNCHANGED <<pc, n, debugEnabled, printedKeys, logged, currentYear,
               app, effect, searches>>

\* isLeapYear(y)
IsLeapYearCall(y) ==
  /\ pc = "idle"
  /\ call' = CalendarCall("isLeapYear", y, Undef)
  /\ points' = << isLeapYear[y] >>
  /\ UNCHANGED <<pc, n, debugEnabled, printedKeys, logged, currentYear,
               app, effect, searches>>

\* daysInYear(y)
DaysInYearCall(y) ==
  /\ pc = "idle"
  /\ call' = CalendarCall("daysInYear", y, Undef)
  /\ points' = << daysInYear[y] >>
  /\ UNCHANGED <<pc, n, debugEnabled, printedKeys, logged, currentYear,
               app, effect, searches>>

\* dateFromDayOfYear(year, day): no statement of it throws, so every call
\* returns the formatted string
DateFromDayOfYearCall(year, day) ==
  /\ pc = "idle"
  /\ call' = CalendarCall("dateFromDayOfYear", year, day)
  /\ points' = << dateFromDayOfYear[year, day] >>
  /\ UNCHANGED <<pc, n, debugEnabled, printedKeys, logged, currentYear,
               app, effect, searches>>

\* the helpers called with years at century and 400-year marks and before
\* year 0, and with days on both sides of 1..daysInYear(year)
NextCalendar ==
  LET CalendarYears ==
        {-401, -400, -399, -100, -4, -1, 0, 1, 4, 50, 99, 100, 1900, 2000, 2023, 2024, 2100}
      CalendarDays == {-1, 0, 1, 59, 60, 61, 365, 366, 367, 400}
  IN \/ \E y \in CalendarYears : IsLeapYearCall(y)
     \/ \E y \in CalendarYears : DaysInYearCall(y)
     \/ \E y \in CalendarYears, d \in CalendarDays : DateFromDayOfYearCall(y, d)

SpecCalendar == Init /\ [][NextCalendar]_vars

\* C11 (as claimed): dateFromDayOfYear fails fast on an out-of-range day: a
\* call with day < 1 or day > daysInYear(year) ends in an error and returns
\* no date string.
C11_OutOfRangeDayFails ==
  (Returned("dateFromDayOfYear") /\ (call.day < 1 \/ call.day > daysInYear[call.year]))
    => points = << >>

\* C12: isLeapYear(y) is true exactly when y is divisible by 4 and not by
\* 100, or divisible by 400, and daysInYear(y) is 366 exactly for those
\* years and 365 for the others, for every integer year.
C12_LeapRule ==
  /\ Returned("isLeapYear") => (points[1] <=> CivilLeap(call.year))
  /\ Returned("daysInYear") => points[1] = (IF CivilLeap(call.year) THEN 366 ELSE 365)

\* C12 witness: a century year that is not a leap year, and a leap year
\* before year 0
C12_Witness ==
  \/ Returned("isLeapYear") /\ call.year = 1900 /\ points[1] = FALSE
  \/ Returned("daysInYear") /\ call.year = -400 /\ points[1] = 366

-----------------------------------------------------------------------------
(* The generators under a host that may have enabled debugging, called
   again and again, in one specification while the calendar year changes *)

\* the last year the clock reaches
MaxYear == 2027

\* new Date().getFullYear() gives the next year from now on; a generator is
\* synchronous, so the clock is read between calls
NewYear ==
  /\ pc = "idle"
  /\ currentYear < MaxYear
  /\ currentYear' = currentYear + 1
  /\ UNCHANGED <<pc, call, n, points, debugEnabled, printedKeys, logged,
               app, effect, searches>>

\* London at 07:00 (the Sun below the horizon in winter) without a year, and
\* one component series of 2024 at 51.5 and at 51.5000004 degrees north
ObserverCalls ==
  {MainCall(London[1], London[2], 7, 0, 0, Undef),
   InsetCall(London[1], London[2], 10, 0, 0, 2024, TRUE, FALSE),
   [InsetCall(London[1], London[2], 10, 0, 0, 2024, TRUE, FALSE) EXCEPT !.latitudeSub = 4]}

\* the module as loaded by a host that has set __ANAL_EMMA_DEBUG__ (main.tsx)
\* or has not
InitObserver ==
  /\ pc = "idle"
  /\ call = NoCall
  /\ n = 0
  /\ points = << >>
  /\ debugEnabled \in BOOLEAN
  /\ printedKeys = {}
  /\ logged = << >>
  /\ currentYear = 2026
  /\ Unmounted

NextObserver ==
  \/ \E c \in ObserverCalls : Call(c)
  \/ StepMain
  \/ ReturnMain
  \/ StepInset
  \/ ReturnInset

SpecObserver == InitObserver /\ [][NextObserver]_vars

\* the calls without a seventh decimal, made again as the years pass
NextClock ==
  \/ \E c \in {o \in ObserverCalls : o.latitudeSub = 0} : Call(c)
  \/ StepMain
  \/ ReturnMain
  \/ StepInset
  \/ ReturnInset
  \/ NewYear

SpecClock == InitObserver /\ [][NextClock]_vars

\* the series a generator returns for inputs c when called now
MainSeries(c) == [i \in 1..daysInYear[YearOf(c)] |-> MainPoint(c, i)]
InsetSeries(c) == [i \in 1..daysInYear[YearOf(c)] |-> InsetPoint(c, i)]

\* the output of the last call is what the same call returns now
OutputIsSeries ==
  /\ call.fn = "main" => points = MainSeries(call)
  /\ call.fn = "inset" => points = InsetSeries(call)

\* C13 (as claimed): calling a generator twice with identical inputs returns
\* identical output, whatever calls happened in between, whatever the
\* de-duplication set holds, and whenever the two calls are made, also when
\* the year is omitted in both: what the last call returned is what the same
\* call returns at any later time.
C13_SameInputsSameOutput == pc = "idle" => OutputIsSeries

\* C13 (amended): a call returns the series of its inputs and of the year it
\* uses, whatever calls happened before and whatever the de-duplication set
\* holds; with the year given that series is the output of the same call at
\* any later time, with the year omitted it is the output of the same call
\* for as long as the calendar year is that of the return.
C13_SameInputsSameYearSameOutput ==
  [][(pc' = "idle" /\ (pc # "idle" \/ call'.year # Undef)) => OutputIsSeries']_vars

\* C13 witness: a repeated call with a given year has returned in a later
\* calendar year, its key already in the de-duplication set
C13_Witness ==
  /\ Returned("inset") /\ call.year # Undef
  /\ currentYear > 2026
  /\ debugEnabled /\ Len(logged) >= 2
  /\ InsetKey(call) \in printedKeys
  /\ Len(points) = daysInYear[call.year]

\* one iteration of a generator's loop, and its return
LoopStep == pc \in {"main", "inset"} /\ pc' = pc
ReturnStep == pc \in {"main", "inset"} /\ pc' = "idle"

\* C14: the diagnostic observer never affects the results: an iteration
\* pushes the point of the inputs and the day and leaves the observer's
\* state alone, and the return hands back the points as the loop left them
\* whether debugging is enabled or not and whether or not the key is in the
\* de-duplication set; the return changes nothing but that set and the log,
\* and neither of them while debugging is disabled.
C14_ObserverFrame ==
  [][/\ LoopStep =>
          /\ points' = Append(points, IF pc = "main" THEN MainPoint(call, n)
                                      ELSE InsetPoint(call, n))
          /\ UNCHANGED <<debugEnabled, printedKeys, logged>>
     /\ ReturnStep =>
          /\ UNCHANGED <<call, n, points, debugEnabled, currentYear>>
          /\ ~debugEnabled => UNCHANGED <<printedKeys, logged>>]_vars

\* C14 witness: a series with days below the horizon has been returned with
\* debugging enabled and its summary logged
C14_Witness ==
  /\ Returned("main") /\ debugEnabled
  /\ MainKey(call) \in printedKeys
  /\ \E j \in 1..Len(logged) : logged[j].series = "main"
  /\ \E i \in 1..Len(points) : ~points[i].visible
  /\ \E i \in 1..Len(points) : points[i].visible

\* the inputs a summary reports: those of the call, with the year used
Inputs(c) == [c EXCEPT !.year = YearOf(c)]

\* the return logs a summary of the call
Emits == logged' = Append(logged, logged'[Len(logged')]) /\ logged'[Len(logged')].inputs = Inputs(call)

\* C15 (as claimed): while debugging is enabled a summary is emitted exactly
\* once per distinct combination of inputs (series, latitude, longitude,
\* hour, minute, tzOffsetHours, year, the two flags): a return emits exactly
\* when no summary of the same combination has been emitted before, so a
\* call with a different combination is never suppressed.
C15_OncePerCombination ==
  [][(debugEnabled /\ ReturnStep) =>
       (Emits <=> ~ \E j \in 1..Len(logged) : logged[j].inputs = Inputs(call))]_vars

\* two combinations of inputs that agree once latitude and longitude are
\* rounded to six decimals
SameToSixDecimals(a, b) ==
  /\ [a EXCEPT !.latitudeDeg = 0, !.latitudeSub = 0] = [b EXCEPT !.latitudeDeg = 0, !.latitudeSub = 0]
  /\ (10 * a.latitudeDeg + a.latitudeSub < 0) = (10 * b.latitudeDeg + b.latitudeSub < 0)
  /\ Round6[10 * a.latitudeDeg + a.latitudeSub] = Round6[10 * b.latitudeDeg + b.latitudeSub]

\* C15 (amended): while debugging is enabled a summary is emitted exactly
\* once per distinct combination of series, latitude and longitude rounded to
\* six decimals, hour, minute, tzOffsetHours, year used and the two flags: a
\* return emits exactly when no summary of a combination equal to six
\* decimals has been emitted before.
C15_OncePerRoundedCombination ==
  [][(debugEnabled /\ ReturnStep) =>
       (Emits <=> ~ \E j \in 1..Len(logged) : SameToSixDecimals(logged[j].inputs, Inputs(call)))]_vars

\* C15 witness: a call has returned without a summary of its own, after one
\* of a latitude that differs in the seventh decimal
C15_Witness ==
  /\ Returned("inset") /\ debugEnabled
  /\ ~ \E j \in 1..Len(logged) : logged[j].inputs = Inputs(call)
  /\ \E j \in 1..Len(logged) : SameToSixDecimals(logged[j].inputs, Inputs(call))

-----------------------------------------------------------------------------
(* IEEE 754 binary64, the number type of enuScaling.ts.  A magnitude is a
   natural number written in limbs of LimbBits bits, lowest limb first and
   no zero limb on top; a number is sign * mantissa * 2^exponent with a
   mantissa of exactly MantissaBits bits, or zero with the empty mantissa
   (-0 is 0: the two are === and no operation used tells them apart).
   NaN, infinities and subnormals do not arise from the inputs used. *)

LimbBits == 10
Base == 1024
MantissaBits == 53

Limbs == Seq(Int)

\* removes zero limbs from the top
Strip[a \in Limbs] ==
  IF a = << >> THEN << >>
  ELSE IF a[Len(a)] = 0 THEN Strip[SubSeq(a, 1, Len(a) - 1)]
  ELSE a

\* a + b, limb by limb with carry c from limb i upwards
LAdd[a \in Limbs, b \in Limbs] ==
  LET AddFrom[c \in Int, i \in Int] ==
        IF i > Len(a) /\ i > Len(b) THEN (IF c = 0 THEN << >> ELSE << c >>)
        ELSE LET sum == (IF i <= Len(a) THEN a[i] ELSE 0) + (IF i <= Len(b) THEN b[i] ELSE 0) + c
             IN << sum % Base >> \o AddFrom[sum \div Base, i + 1]
  IN AddFrom[0, 1]

\* a - b for a >= b, limb by limb with borrow c from limb i upwards
LSub[a \in Limbs, b \in Limbs] ==
  LET SubFrom[c \in Int, i \in Int] ==
        IF i > Len(a) THEN << >>
        ELSE LET diff == a[i] - (IF i <= Len(b) THEN b[i] ELSE 0) - c
             IN << diff % Base >> \o SubFrom[IF diff < 0 THEN 1 ELSE 0, i + 1]
  IN Strip[SubFrom[0, 1]]

\* a < b: by length, then from the top limb downwards
LLess[a \in Limbs, b \in Limbs] ==
  LET LessFrom[i \in Int] ==
        IF i = 0 THEN FALSE
        ELSE IF a[i] # b[i] THEN a[i] < b[i]
        ELSE LessFrom[i - 1]
  IN IF Len(a) # Len(b) THEN Len(a) < Len(b) ELSE LessFrom[Len(a)]

\* a * k for a single limb k, with carry c from limb i upwards
LMulSmall[a \in Limbs, k \in Int] ==
  LET MulSmallFrom[c \in Int, i \in Int] ==
        IF i > Len(a) THEN (IF c = 0 THEN << >> ELSE << c >>)
        ELSE << (a[i] * k + c) % Base >> \o MulSmallFrom[(a[i] * k + c) \div Base, i + 1]
  IN IF k = 0 THEN << >> ELSE MulSmallFrom[0, 1]

\* a * b, by the limbs of b from limb i upwards
LMul[a \in Limbs, b \in Limbs] ==
  LET MulFrom[i \in Int] ==
        IF i > Len(b) THEN << >>
        ELSE LAdd[LMulSmall[a, b[i]], IF i = Len(b) THEN << >> ELSE << 0 >> \o MulFrom[i + 1]]
  IN Strip[MulFrom[1]]

\* the quotient of a by d < 2^21, from limb i downwards with remainder r
LDivSmall[a \in Limbs, d \in Int] ==
  LET DivSmallFrom[r \in Int, i \in Int] ==
        IF i = 0 THEN << >>
        ELSE DivSmallFrom[(r * Base + a[i]) % d, i - 1] \o << (r * Base + a[i]) \div d >>
  IN Strip[DivSmallFrom[0, Len(a)]]

\* the remainder of a by d < 2^21
LModSmall[a \in Limbs, d \in Int] ==
  LET ModSmallFrom[r \in Int, i \in Int] ==
        IF i = 0 THEN r ELSE ModSmallFrom[(r * Base + a[i]) % d, i - 1]
  IN ModSmallFrom[0, Len(a)]

\* the limbs of a natural number
FromNat[v \in Nat] == IF v = 0 THEN << >> ELSE << v % Base >> \o FromNat[v \div Base]

\* the number of bits of a magnitude
BitLength[a \in Limbs] ==
  LET LimbLength[v \in Nat] == IF v = 0 THEN 0 ELSE 1 + LimbLength[v \div 2]
  IN IF a = << >> THEN 0 ELSE LimbBits * (Len(a) - 1) + LimbLength[a[Len(a)]]

\* a * 2^k and floor(a / 2^k)
ShiftLeft[a \in Limbs, k \in Nat] ==
  IF a = << >> THEN << >>
  ELSE [i \in 1..(k \div LimbBits) |-> 0] \o LMulSmall[a, Pow2[k % LimbBits]]

ShiftRight[a \in Limbs, k \in Nat] ==
  IF k \div LimbBits >= Len(a) THEN << >>
  ELSE LDivSmall[SubSeq(a, (k \div LimbBits) + 1, Len(a)), Pow2[k % LimbBits]]

\* a number: sign 1 or -1, mantissa and exponent
Float(s, m, e) == [s |-> s, m |-> m, e |-> e]

Floats == [s : {-1, 1}, m : Limbs, e : Int]

FZero == Float(1, << >>, 0)

\* s * v * 2^e with v cut by k bits to the quotient q, rounded half to even:
\* q goes up when the remainder is over half, or is half and q is odd; a
\* q + 1 of 2^MantissaBits takes one more bit of exponent
RoundCut[s \in {-1, 1}, v \in Limbs, e \in Int, q \in Limbs, k \in Nat] ==
  LET rem == LSub[v, ShiftLeft[q, k]]
      half == ShiftLeft[<< 1 >>, k - 1]
      q1 == LAdd[q, << 1 >>]
  IN IF ~(LLess[half, rem] \/ (rem = half /\ q[1] % 2 = 1)) THEN Float(s, q, e + k)
     ELSE IF BitLength[q1] > MantissaBits THEN Float(s, ShiftRight[q1, 1], e + k + 1)
     ELSE Float(s, q1, e + k)

\* s * v * 2^e as the nearest number
Round[s \in {-1, 1}, v \in Limbs, e \in Int] ==
  LET len == BitLength[v]
  IN IF len = 0 THEN FZero
     ELSE IF len <= MantissaBits
     THEN Float(s, ShiftLeft[v, MantissaBits - len], e - (MantissaBits - len))
     ELSE RoundCut[s, v, e, ShiftRight[v, len - MantissaBits], len - MantissaBits]

\* an integer as a number
FromInt[v \in Int] == Round[Sign[v], FromNat[Abs[v]], 0]

\* x < y: by sign, then by the magnitudes aligned to the smaller exponent
FLess[x \in Floats, y \in Floats] ==
  LET emin == MathMin[x.e, y.e]
  IN IF x.m = << >> THEN y.m # << >> /\ y.s = 1
     ELSE IF y.m = << >> THEN x.s = -1
     ELSE IF x.s # y.s THEN x.s < y.s
     ELSE IF x.s = 1 THEN LLess[ShiftLeft[x.m, x.e - emin], ShiftLeft[y.m, y.e - emin]]
     ELSE LLess[ShiftLeft[y.m, y.e - emin], ShiftLeft[x.m, x.e - emin]]

\* Math.max(x, y)
FMax[x \in Floats, y \in Floats] == IF FLess[x, y] THEN y ELSE x

\* x + y: the exact sum of the magnitudes aligned to the smaller exponent,
\* rounded
FAdd[x \in Floats, y \in Floats] ==
  LET emin == MathMin[x.e, y.e]
      a == ShiftLeft[x.m, x.e - emin]
      b == ShiftLeft[y.m, y.e - emin]
  IN IF x.m = << >> THEN y
     ELSE IF y.m = << >> THEN x
     ELSE IF x.s = y.s THEN Round[x.s, LAdd[a, b], emin]
     ELSE IF LLess[a, b] THEN Round[y.s, LSub[b, a], emin]
     ELSE Round[x.s, LSub[a, b], emin]

\* x - y
FSub[x \in Floats, y \in Floats] == FAdd[x, IF y.m = << >> THEN y ELSE Float(-y.s, y.m, y.e)]

\* x * y
FMul[x \in Floats, y \in Floats] == Round[x.s * y.s, LMul[x.m, y.m], x.e + y.e]

\* x / 2
FHalf[x \in Floats] == IF x.m = << >> THEN x ELSE Float(x.s, x.m, x.e - 1)

\* a / b for integers a and b, 0 < b < 2^21: the quotient of a * 2^GuardBits
\* by b, with one more bit set when the division leaves a remainder
FDivInt[a \in Int, b \in Int] ==
  LET GuardBits == 80
      v == ShiftLeft[FromNat[Abs[a]], GuardBits]
      sticky == IF LModSmall[v, Abs[b]] = 0 THEN << >> ELSE << 1 >>
  IN Round[Sign[a] * Sign[b], LAdd[ShiftLeft[LDivSmall[v, Abs[b]], 1], sticky], -(GuardBits + 1)]

-----------------------------------------------------------------------------
(* enuScaling.ts: computeEnuDomainsAspectLocked *)

\* type Domain = [number, number]
Domain == Floats \X Floats

\* Math.max(1, |px|)
SafePxAbs(px) == MathMax[1, Abs[px]]

\* safeWidth, safeHeight: Math.max(1, px)
SafePx(px) == MathMax[1, px]

\* ePad, uPad: Math.max(minPad, Math.max(minSpan, hi - lo) * padFraction)
Pad[lo \in Floats, hi \in Floats, minPad \in Floats, padFraction \in Floats, minSpan \in Floats] ==
  FMax[minPad, FMul[FMax[minSpan, FSub[hi, lo]], padFraction]]

\* [lo - pad, hi + pad]
Padded[lo \in Floats, hi \in Floats, pad \in Floats] == << FSub[lo, pad], FAdd[hi, pad] >>

\* eMid, uMid: (domainMin + domainMax) / 2
Mid[d \in Domain] == FHalf[FAdd[d[1], d[2]]]

\* eSpan, uSpan: Math.max(minSpan, domainMax - domainMin)
Span[d \in Domain, minSpan \in Floats] == FMax[minSpan, FSub[d[2], d[1]]]

\* [mid - span / 2, mid + span / 2]
Centered[mid \in Floats, span \in Floats] == << FSub[mid, FHalf[span]], FAdd[mid, FHalf[span]] >>

\* an aspect lock that leaves both padded domains as they are
AspectLockSkipped(eD, uD, eSpan, uSpan, uSpanForE, eSpanForU) ==
  [eDomain |-> eD, uDomain |-> uD]

\* an aspect lock that stretches the short axis from its lower end
AspectLockFromMin(eD, uD, eSpan, uSpan, uSpanForE, eSpanForU) ==
  IF FLess[uSpan, uSpanForE]
  THEN [eDomain |-> eD, uDomain |-> << uD[1], FAdd[uD[1], uSpanForE] >>]
  ELSE IF FLess[eSpan, eSpanForU]
  THEN [eDomain |-> << eD[1], FAdd[eD[1], eSpanForU] >>, uDomain |-> uD]
  ELSE [eDomain |-> eD, uDomain |-> uD]

\* an aspect lock that shrinks the long axis instead of stretching the short
\* one
AspectLockShrinking(eD, uD, eSpan, uSpan, uSpanForE, eSpanForU) ==
  IF FLess[uSpanForE, uSpan]
  THEN [eDomain |-> eD, uDomain |-> Centered[Mid[uD], uSpanForE]]
  ELSE IF FLess[eSpanForU, eSpan]
  THEN [eDomain |-> Centered[Mid[eD], eSpanForU], uDomain |-> uD]
  ELSE [eDomain |-> eD, uDomain |-> uD]

\* the if / else if of lines 51 to 59 and the value returned
AspectLock(eD, uD, eSpan, uSpan, uSpanForE, eSpanForU) ==
  IF FLess[uSpan, uSpanForE]
  THEN [eDomain |-> eD, uDomain |-> Centered[Mid[uD], uSpanForE]]
  ELSE IF FLess[eSpan, eSpanForU]
  THEN [eDomain |-> Centered[Mid[eD], eSpanForU], uDomain |-> uD]
  ELSE [eDomain |-> eD, uDomain |-> uD]

\* the padded domains of lines 31 to 40
PaddedE(p) == Padded[p.eMin, p.eMax, Pad[p.eMin, p.eMax, p.minPadE, p.padFraction, p.minSpan]]
PaddedU(p) == Padded[p.uMin, p.uMax, Pad[p.uMin, p.uMax, p.minPadU, p.padFraction, p.minSpan]]

\* lines 31 to 64 for given safeWidth and safeHeight, with uSpanForE =
\* eSpan * (safeHeight / safeWidth), eSpanForU = uSpan * (safeWidth / safeHeight)
AspectLocked(p, safeWidth, safeHeight) ==
  LET eSpan == Span[PaddedE(p), p.minSpan]
      uSpan == Span[PaddedU(p), p.minSpan]
  IN AspectLock(PaddedE(p), PaddedU(p), eSpan, uSpan,
                FMul[eSpan, FDivInt[safeHeight, safeWidth]],
                FMul[uSpan, FDivInt[safeWidth, safeHeight]])

computeEnuDomainsAspectLocked(p) ==
  AspectLocked(p, SafePx(p.plotWidthPx), SafePx(p.plotHeightPx))

\* the call runs to its return: the value returned is left in points
ReturnEnu ==
  /\ pc = "enu"
  /\ points' = << computeEnuDomainsAspectLocked(call) >>
  /\ pc' = "idle"
  /\ UNCHANGED <<call, n, debugEnabled, printedKeys, logged, currentYear,
               app, effect, searches>>

\* the application's call when no point is visible (eMin = -1, eMax = 1,
\* uMin = 0, uMax = 1) with its paddings 0.1, 0.1, 0.05 and minSpan 1e-6
AppCall(eMin, eMax, uMin, uMax, plotWidthPx, plotHeightPx) ==
  [fn |-> "computeEnuDomainsAspectLocked",
   eMin |-> eMin, eMax |-> eMax, uMin |-> uMin, uMax |-> uMax,
   plotWidthPx |-> plotWidthPx, plotHeightPx |-> plotHeightPx,
   padFraction |-> FDivInt[1, 10], minPadE |-> FDivInt[1, 10],
   minPadU |-> FDivInt[5, 100], minSpan |-> FDivInt[1, 1000 * 1000]]

Fallback == AppCall(FromInt[-1], FromInt[1], FromInt[0], FromInt[1], 200, 100)

\* the application has called computeEnuDomainsAspectLocked with some
\* parameters: ranges of E and of U (the full width, a point, parts of the
\* plot), plot sizes in pixels, also collapsed ones, each with the
\* application's paddings and without any padding
InitEnu ==
  /\ pc = "enu"
  /\ LET ERanges == {<<FromInt[-1], FromInt[1]>>, <<FZero, FZero>>,
                     <<FDivInt[-1, 2], FDivInt[3, 10]>>,
                     <<FDivInt[1, 4], FDivInt[1, 4]>>}
         URanges == {<<FromInt[0], FromInt[1]>>, <<FZero, FZero>>,
                     <<FDivInt[1, 10], FDivInt[9, 10]>>}
         PlotSizes == {<<200, 100>>, <<100, 200>>, <<100, 100>>, <<0, 100>>,
                       <<1, 100>>, <<-5, 0>>, <<1, 1>>, <<300, 7>>}
         padded == {AppCall(e[1], e[2], u[1], u[2], s[1], s[2]) :
                      e \in ERanges, u \in URanges, s \in PlotSizes}
         Unpadded(p) == [p EXCEPT !.padFraction = FZero, !.minPadE = FZero,
                                  !.minPadU = FZero]
     IN  call \in padded \cup {Unpadded(p) : p \in padded}
  /\ n = 0
  /\ points = << >>
  /\ debugEnabled = FALSE
  /\ printedKeys = {}
  /\ logged = << >>
  /\ currentYear = 2026
  /\ Unmounted

SpecEnu == InitEnu /\ [][ReturnEnu]_vars

\* the value returned by the call
Domains == points[1]

\* y - x exactly, as sign, magnitude and exponent
ExactSub[x \in Floats, y \in Floats, emin \in Int] ==
  IF x.s # y.s THEN [s |-> y.s, m |-> LAdd[ShiftLeft[x.m, x.e - emin], ShiftLeft[y.m, y.e - emin]], e |-> emin]
  ELSE IF LLess[ShiftLeft[y.m, y.e - emin], ShiftLeft[x.m, x.e - emin]]
  THEN [s |-> -y.s, m |-> LSub[ShiftLeft[x.m, x.e - emin], ShiftLeft[y.m, y.e - emin]], e |-> emin]
  ELSE [s |-> y.s, m |-> LSub[ShiftLeft[y.m, y.e - emin], ShiftLeft[x.m, x.e - emin]], e |-> emin]

\* the width max - min of a domain, exactly
Width(d) == ExactSub[d[1], d[2], MathMin[d[1].e, d[2].e]]

\* w * k exactly
Times(w, k) == [s |-> w.s, m |-> LMul[w.m, FromNat[k]], e |-> w.e]

\* a = b for exact non-negative values, up to the rounding of the last
\* twelve bits of a number
EqualUpToRounding[a \in Floats, b \in Floats, emin \in Int] ==
  /\ a.s = 1 \/ a.m = << >>
  /\ b.s = 1 \/ b.m = << >>
  /\ ~ LLess[ShiftLeft[a.m, a.e - emin],
             ShiftLeft[ExactSub[a, b, emin].m, MantissaBits - 12]]
  /\ ~ LLess[ShiftLeft[b.m, b.e - emin],
             ShiftLeft[ExactSub[a, b, emin].m, MantissaBits - 12]]

\* C16 (as claimed): after computeEnuDomainsAspectLocked returns, both axes
\* have equal units per pixel, (eDomain[1] - eDomain[0]) / max(1, plotWidthPx)
\* = (uDomain[1] - uDomain[0]) / max(1, plotHeightPx), here with the two
\* sides cross-multiplied and allowed to differ by floating-point rounding,
\* for every input with eMin <= eMax, uMin <= uMax, non-negative paddings
\* and minSpan > 0.
C16_EqualUnitsPerPixel ==
  Returned("computeEnuDomainsAspectLocked") =>
    LET a == Times(Width(Domains.eDomain), MathMax[1, call.plotHeightPx])
        b == Times(Width(Domains.uDomain), MathMax[1, call.plotWidthPx])
    IN EqualUpToRounding[a, b, MathMin[a.e, b.e]]

\* d strictly wider than the padded range r
StrictlyWider(d, r) ==
  /\ ~ FLess[r[1], d[1]]
  /\ ~ FLess[d[2], r[2]]
  /\ FLess[d[1], r[1]] \/ FLess[r[2], d[2]]

\* C17: for eMin = -1, eMax = 1, uMin = 0, uMax = 1 on a plot of 200 by 100
\* pixels, with the application's paddings and minSpan, the aspect lock
\* expands an axis: the returned E domain is strictly wider than the padded
\* range [eMin - ePad, eMax + ePad], or the U domain strictly wider than its
\* padded range.
C17_FallbackExpands ==
  (Returned("computeEnuDomainsAspectLocked") /\ call = Fallback) =>
    \/ StrictlyWider(Domains.eDomain, PaddedE(call))
    \/ StrictlyWider(Domains.uDomain, PaddedU(call))

\* C17 witness: the fallback call has returned an E domain that is not the
\* padded range, and the padded U domain
C17_Witness ==
  /\ Returned("computeEnuDomainsAspectLocked") /\ call = Fallback
  /\ Domains.eDomain # PaddedE(call)
  /\ Domains.uDomain = PaddedU(call)

\* C18 (as claimed): every domain returned is a proper interval, min < max
\* with a span of at least minSpan, for every input with eMin <= eMax,
\* uMin <= uMax, minSpan > 0 and non-negative paddings, zero-width ranges
\* and zero paddings included.
C18_ProperIntervals ==
  Returned("computeEnuDomainsAspectLocked") =>
    /\ FLess[Domains.eDomain[1], Domains.eDomain[2]]
    /\ FLess[Domains.uDomain[1], Domains.uDomain[2]]
    /\ ~ FLess[FSub[Domains.eDomain[2], Domains.eDomain[1]], call.minSpan]
    /\ ~ FLess[FSub[Domains.uDomain[2], Domains.uDomain[1]], call.minSpan]

\* C19: plot sizes are floored to 1 before use: for a plotWidthPx or
\* plotHeightPx of 0 or less the call returns the domains of the same call
\* with that size 1, without dividing by zero.
C19_SizeFlooredToOne ==
  (Returned("computeEnuDomainsAspectLocked") /\ (call.plotWidthPx <= 0 \/ call.plotHeightPx <= 0)) =>
    Domains = AspectLocked(call, IF call.plotWidthPx <= 0 THEN 1 ELSE call.plotWidthPx,
                                 IF call.plotHeightPx <= 0 THEN 1 ELSE call.plotHeightPx)

\* C19 witness: a call with a negative width and a zero height has returned
C19_Witness ==
  /\ Returned("computeEnuDomainsAspectLocked")
  /\ call.plotWidthPx < 0 /\ call.plotHeightPx = 0
  /\ Domains = AspectLocked(call, 1, 1)

\* x + y exactly, as sign, magnitude and exponent
ExactSum(x, y, emin) == ExactSub[IF x.m = << >> THEN x ELSE [x EXCEPT !.s = -x.s], y, emin]

\* the domains d and r have the same midpoint up to the rounding of the last
\* thirteen bits of their bounds: the sums min + max differ by no more than
\* 2^-40 of |min| + |max|
SameMidpoint(d, r) ==
  LET emin == MathMin[MathMin[d[1].e, d[2].e], MathMin[r[1].e, r[2].e]]
      diff == ExactSub[ExactSum(d[1], d[2], emin), ExactSum(r[1], r[2], emin), emin]
  IN ~ LLess[LAdd[ShiftLeft[r[1].m, r[1].e - emin], ShiftLeft[r[2].m, r[2].e - emin]],
             ShiftLeft[diff.m, 40]]

\* the spans of the padded domains and the spans the other axis demands
PaddedSpans(p) ==
  LET eSpan == Span[PaddedE(p), p.minSpan]
      uSpan == Span[PaddedU(p), p.minSpan]
  IN [eSpan |-> eSpan, uSpan |-> uSpan,
      uSpanForE |-> FMul[eSpan, FDivInt[MathMax[1, p.plotHeightPx], MathMax[1, p.plotWidthPx]]],
      eSpanForU |-> FMul[uSpan, FDivInt[MathMax[1, p.plotWidthPx], MathMax[1, p.plotHeightPx]]]]

\* the padded domain [lo - pad, hi + pad] with pad = max(minPad, max(minSpan,
\* hi - lo) * padFraction)
PaddedRange(lo, hi, minPad, padFraction, minSpan) ==
  << FSub[lo, FMax[minPad, FMul[FMax[minSpan, FSub[hi, lo]], padFraction]]],
     FAdd[hi, FMax[minPad, FMul[FMax[minSpan, FSub[hi, lo]], padFraction]]] >>

\* C25: at most one axis is expanded by the aspect lock, namely the one whose
\* padded span is smaller than the other axis's aspect ratio demands; the
\* expanded axis keeps the midpoint of its padded domain (up to the rounding
\* of the arithmetic) and is not narrower than it, and the other axis is
\* returned exactly as its padded domain [min - pad, max + pad] with pad =
\* max(minPad, max(minSpan, max - min) * padFraction).
C25_OneAxisExpanded ==
  Returned("computeEnuDomainsAspectLocked") =>
    LET eD == PaddedRange(call.eMin, call.eMax, call.minPadE, call.padFraction, call.minSpan)
        uD == PaddedRange(call.uMin, call.uMax, call.minPadU, call.padFraction, call.minSpan)
        sp == PaddedSpans(call)
    IN /\ Domains.eDomain = eD \/ Domains.uDomain = uD
       /\ Domains.uDomain # uD =>
            /\ FLess[sp.uSpan, sp.uSpanForE]
            /\ SameMidpoint(uD, Domains.uDomain)
            /\ StrictlyWider(Domains.uDomain, uD)
       /\ Domains.eDomain # eD =>
            /\ FLess[sp.eSpan, sp.eSpanForU]
            /\ SameMidpoint(eD, Domains.eDomain)
            /\ StrictlyWider(Domains.eDomain, eD)
       /\ (~ FLess[sp.uSpan, sp.uSpanForE] /\ ~ FLess[sp.eSpan, sp.eSpanForU]) =>
            Domains.eDomain = eD /\ Domains.uDomain = uD

\* C25 witness: a call with a range of E off the centre has returned with the
\* E domain expanded and the padded U domain
C25_Witness ==
  /\ Returned("computeEnuDomainsAspectLocked")
  /\ Domains.eDomain # PaddedE(call) /\ Domains.uDomain = PaddedU(call)
  /\ FLess[call.eMin, call.eMax]
  /\ Mid[PaddedE(call)] # FZero

\* C26: the domains returned contain the input data range, eDomain[0] <=
\* eMin, eMax <= eDomain[1], uDomain[0] <= uMin and uMax <= uDomain[1], for
\* every input with eMin <= eMax, uMin <= uMax and non-negative paddings:
\* the aspect lock widens a padded domain and never narrows it.
C26_DomainsContainData ==
  Returned("computeEnuDomainsAspectLocked") =>
    /\ ~ FLess[call.eMin, Domains.eDomain[1]] /\ ~ FLess[Domains.eDomain[2], call.eMax]
    /\ ~ FLess[call.uMin, Domains.uDomain[1]] /\ ~ FLess[Domains.uDomain[2], call.uMax]
    /\ ~ FLess[PaddedE(call)[1], Domains.eDomain[1]] /\ ~ FLess[Domains.eDomain[2], PaddedE(call)[2]]
    /\ ~ FLess[PaddedU(call)[1], Domains.uDomain[1]] /\ ~ FLess[Domains.uDomain[2], PaddedU(call)[2]]

\* C26 witness: a call without padding has returned with the U domain
\* expanded around a range of U that is not a point
C26_Witness ==
  /\ Returned("computeEnuDomainsAspectLocked")
  /\ call.padFraction = FZero /\ call.minPadU = FZero
  /\ FLess[call.uMin, call.uMax]
  /\ Domains.uDomain # PaddedU(call)
  /\ FLess[Domains.uDomain[1], call.uMin] /\ FLess[call.uMax, Domains.uDomain[2]]

-----------------------------------------------------------------------------
(* Ranges of the horizontal coordinates *)

\* C20 (as claimed): every generated point, of the main series and of the
\* component-filtered series, has azimuthDeg in [0, 360) and altitudeDeg in
\* [-90, 90], for every latitude, longitude, clock time, time-zone offset
\* and year.
C20_AnglesInRange ==
  (call.fn \in {"main", "inset"} /\ Last >= 1) =>
    /\ IsNum[points[Last].azimuthDeg]
    /\ 0 <= points[Last].azimuthDeg /\ points[Last].azimuthDeg < 360 * S
    /\ IsNum[points[Last].altitudeDeg]
    /\ -90 * S <= points[Last].altitudeDeg /\ points[Last].altitudeDeg <= 90 * S

-----------------------------------------------------------------------------
(* The unit vector and the visibility flag of a point *)

\* C21 (as claimed): every generated point is a unit vector, E^2 + N^2 + U^2
\* = 1 within the tolerance of the arithmetic (eight units of the last digit
\* kept here, for 1e-9 of a double), with altitude = asin(U) and the azimuth
\* derived from E and N only.
C21_UnitVector ==
  (call.fn \in {"main", "inset"} /\ Last >= 1) =>
    LET p == points[Last]
    IN /\ IsNum[p.E] /\ IsNum[p.N] /\ IsNum[p.U]
       /\ Abs[Mul[p.E, p.E] + Mul[p.N, p.N] + Mul[p.U, p.U] - S] <= 8
       /\ p.altitudeDeg = altitudeDeg[p.U]
       /\ p.azimuthDeg = azimuthDeg(p.E, p.N)

\* C22: for every generated point, of the main and of the component-filtered
\* series, visible is true exactly when altitudeDeg > 0: a point with an
\* altitude of exactly 0 or below (or without an altitude) is not visible.
C22_VisibleAboveHorizon ==
  (call.fn \in {"main", "inset"} /\ Last >= 1) =>
    (points[Last].visible <=>
       (IsNum[points[Last].altitudeDeg] /\ points[Last].altitudeDeg > 0))

\* C22 witness: a point with an altitude of exactly 0 has been pushed, not
\* visible
C22_Witness ==
  /\ call.fn = "inset" /\ Last >= 1
  /\ points[Last].altitudeDeg = 0
  /\ ~points[Last].visible

-----------------------------------------------------------------------------
(* Hour-angle resolution *)

\* the clock minutes, the equation of time and the sum localClockMinutes +
\* eot + 4 * (longitude - 15 * tz) of the day of the last point, in minutes
\* at scale MS
LastClockMinutes ==
  IF call.fn = "inset" THEN (60 * call.hh + call.mm) * MS
  ELSE (60 * ClampHour(call.hh) + ClampMinute(call.mm)) * MS

LastEot ==
  LET g == Gamma[Last, daysInYear[YearOf(call)]]
  IN IF call.fn = "inset" THEN InsetEot(g, call.includeObliquity, call.includeEccentricity)
     ELSE EotMain[g]

LastSolarSum ==
  LastClockMinutes + LastEot + RDiv[4 * (call.longitudeDeg - 15 * call.tzOffsetHours), 10]

\* C23: for every clock time, equation of time, longitude and tzOffsetHours,
\* sums that are negative or exceed one day included, the true solar time is
\* (localClockMinutes + eot + 4 * (longitude - 15 * tz)) mod 1440, in
\* [0, 1440); the hour angle tst / 4 - 180 lies in [-180, 180) degrees, a
\* true solar time of 720 gives the hour angle 0, and the point pushed is the
\* point of that hour angle.
C23_HourAngleResolved ==
  (call.fn \in {"main", "inset"} /\ Last >= 1 /\ IsNum[call.hh] /\ IsNum[call.mm]) =>
    LET tst == LastSolarSum % (1440 * MS)
        H_deg == RDiv[tst * 10, 4] - 180 * S
        p == Horizontal[deg2rad[call.latitudeDeg], LastDeclination, H_deg]
    IN /\ LastTrueSolarTime = tst
       /\ 0 <= LastTrueSolarTime /\ LastTrueSolarTime < 1440 * MS
       /\ -180 * S <= H_deg /\ H_deg < 180 * S
       /\ tst = 720 * MS => H_deg = 0
       /\ points[Last].E = p.E /\ points[Last].N = p.N /\ points[Last].U = p.U

\* C23 witness: a point of a day whose sum is negative has been pushed, or of
\* a day whose sum exceeds two days
C23_Witness ==
  /\ call.fn \in {"main", "inset"} /\ Last >= 1 /\ IsNum[call.hh] /\ IsNum[call.mm]
  /\ LastSolarSum < -1440 * MS \/ LastSolarSum > 2 * 1440 * MS
  /\ LastTrueSolarTime = LastSolarSum % (1440 * MS)

-----------------------------------------------------------------------------
(* The two component switches *)

\* the point of computeAnalemmaInset for day i when the declination is that
\* of the day if tilt is set and 0 otherwise, and the equation of time is the
\* sum of the components whose switch is set
ComponentPoint(c, i, tilt, eccentricity) ==
  LET g == Gamma[i, daysInYear[YearOf(c)]]
      decl == IF tilt THEN Declination[g] ELSE 0
      eot == (IF tilt THEN ObliquityComponent(g) ELSE 0)
             + (IF eccentricity THEN EccentricityComponent(g) ELSE 0)
  IN Horizontal[deg2rad[c.latitudeDeg], decl,
                HourAngleDeg[TrueSolarTime[ClockMinutes[c.hh, c.mm], eot,
                                           c.longitudeDeg, c.tzOffsetHours]]]

\* C24: the two switches of computeAnalemmaInset act independently: the
\* declination is 0 on every day exactly when includeObliquity is false, the
\* equation of time behind the hour angle of a day is the sum of exactly the
\* enabled components (0 if neither), and includeEccentricity does not change
\* the declination.
C24_SwitchesIndependent ==
  (call.fn = "inset" /\ Last >= 1) =>
    /\ points[Last] = ComponentPoint(call, Last, call.includeObliquity, call.includeEccentricity)
    /\ LastDeclination = (IF call.includeObliquity
                          THEN Declination[Gamma[Last, daysInYear[YearOf(call)]]] ELSE 0)
    /\ ~call.includeObliquity => LastDeclination = 0
    /\ (Returned("inset") /\ call.includeObliquity) =>
         \E i \in 1..Last : Declination[Gamma[i, daysInYear[YearOf(call)]]] # 0

\* C24 witness: the series with the eccentricity component alone has been
\* returned: no declination, and an hour angle that changes over the year
C24_Witness ==
  /\ Returned("inset") /\ ~call.includeObliquity /\ call.includeEccentricity
  /\ Len(points) = 366
  /\ \E i \in 1..Last : points[i] # points[1]
  /\ points[Last] # ComponentPoint(call, Last, FALSE, FALSE)

-----------------------------------------------------------------------------
(* Hour-angle resolution in binary64: lines 159 to 173 (and 356 to 361) on
   the number type itself, for a given clock time and equation of time *)

\* a time offset that adds the zone meridian instead of subtracting it
timeOffsetMinPlusLSTM(eotMin, longitudeDeg, tz) ==
  FAdd[eotMin, FMul[FromInt[4], FAdd[longitudeDeg, FMul[FromInt[15], tz]]]]

\* timeOffsetMin = eotMin + 4 * (inputs.longitudeDeg - LSTM), LSTM = 15 * tz
timeOffsetMin(eotMin, longitudeDeg, tz) ==
  FAdd[eotMin, FMul[FromInt[4], FSub[longitudeDeg, FMul[FromInt[15], tz]]]]

\* the hour angle of a call: the clock minutes are an integer, the equation
\* of time is given in tenths of a minute, the longitude in millionths of a
\* degree and the time-zone offset in half hours, each the number nearest to
\* its decimal.
\*   FMod: x % d for an integer d < 2^21, the remainder of the magnitude
\*     with the sign of x; the operation is exact
\*   TrueSolarTime64: trueSolarTimeMin = ((t % 1440) + 1440) % 1440 for
\*     t = localClockMinutes + timeOffsetMin
\*   HourAngleDeg64: H_deg = trueSolarTimeMin / 4 - 180
HourAngleOf(c) ==
  LET FMod[x \in Floats, d \in Int] ==
        IF x.m = << >> THEN x
        ELSE IF x.e >= 0
        THEN Round[x.s, FromNat[LModSmall[ShiftLeft[x.m, x.e], d]], 0]
        ELSE LET whole == ShiftRight[x.m, -x.e]
                 fraction == LSub[x.m, ShiftLeft[whole, -x.e]]
             IN Round[x.s, LAdd[ShiftLeft[FromNat[LModSmall[whole, d]], -x.e],
                                fraction], x.e]
      TrueSolarTime64[t \in Floats] ==
        FMod[FAdd[FMod[t, 1440], FromInt[1440]], 1440]
      HourAngleDeg64[tst \in Floats] ==
        FSub[IF tst.m = << >> THEN tst ELSE Float(tst.s, tst.m, tst.e - 2),
             FromInt[180]]
  IN  HourAngleDeg64[TrueSolarTime64[
        FAdd[FromInt[c.localClockMinutes],
             timeOffsetMin(FDivInt[c.eotTenths, 10],
                           FDivInt[c.longitudeDeg, S],
                           FDivInt[c.tzHalfHours, 2])]]]

\* the call runs lines 159 to 173: the hour angle is left in points
ReturnHourAngle ==
  /\ pc = "hourAngle"
  /\ points' = << HourAngleOf(call) >>
  /\ pc' = "idle"
  /\ UNCHANGED <<call, n, debugEnabled, printedKeys, logged, currentYear,
               app, effect, searches>>

\* the call is made with clock times, equations of time, longitudes and
\* time-zone offsets, each with a shift <<degrees of longitude, hours of
\* time zone>> that leaves longitudeDeg - 15 * tzOffsetHours as it is or
\* changes it by 360 degrees
InitHourAngle ==
  /\ pc = "hourAngle"
  /\ call \in [fn : {"hourAngle"}, localClockMinutes : {0, 600, 720, 1439},
               eotTenths : {-142, -37, 0, 164},
               longitudeDeg : {London[2], 0, 100500000, Sydney[2], -179500000},
               tzHalfHours : {0, 14, 20, -11},
               shift : {<<15, 1>>, <<-45, -3>>, <<360, 0>>, <<-360, 0>>,
                        <<0, 24>>}]
  /\ n = 0
  /\ points = << >>
  /\ debugEnabled = FALSE
  /\ printedKeys = {}
  /\ logged = << >>
  /\ currentYear = 2026
  /\ Unmounted

SpecHourAngle == InitHourAngle /\ [][ReturnHourAngle]_vars

\* the call with its longitude and time-zone offset shifted
Shifted(c) ==
  [c EXCEPT !.longitudeDeg = c.longitudeDeg + c.shift[1] * S,
            !.tzHalfHours = c.tzHalfHours + 2 * c.shift[2]]

\* C27 (as claimed): the series depends on longitude and time zone only
\* through longitude - 15 * tzOffsetHours: replacing (longitudeDeg,
\* tzOffsetHours) by (longitudeDeg + 15 k, tzOffsetHours + k), or shifting
\* the longitude by a multiple of 360 degrees or the offset by a multiple of
\* 24, gives the same hour angle, the only quantity of a point that reads
\* them, and so the same points.
C27_SameHourAngle ==
  Returned("hourAngle") => points[1] = HourAngleOf(Shifted(call))

\* the hour angles a and b agree up to rounding: they differ by no more than
\* 2^-36 degree, or by no more than that from a full turn
CloseModulo360(a, b) ==
  LET emin == MathMin[MathMin[a.e, b.e], -36]
      diff == ExactSub[a, b, emin].m
      turn == ShiftLeft[FromNat[360], -emin]
      tolerance == ShiftLeft[<< 1 >>, -36 - emin]
  IN \/ ~ LLess[tolerance, diff]
     \/ ~ LLess[diff, turn] /\ ~ LLess[tolerance, LSub[diff, turn]]
     \/ LLess[diff, turn] /\ ~ LLess[tolerance, LSub[turn, diff]]

\* C27 (amended): the hour angle of the shifted inputs agrees with that of
\* the inputs up to floating-point rounding, modulo 360 degrees.
C27_SameHourAngleUpToRounding ==
  Returned("hourAngle") => CloseModulo360(points[1], HourAngleOf(Shifted(call)))

\* C27 witness: a call whose shifted inputs give an hour angle that differs
\* in the last bits
C27_Witness ==
  /\ Returned("hourAngle")
  /\ points[1] # HourAngleOf(Shifted(call))
  /\ CloseModulo360(points[1], HourAngleOf(Shifted(call)))

-----------------------------------------------------------------------------
(* The generators under a host that switches debugging on and off between
   calls *)

\* the host sets or clears globalThis.__ANAL_EMMA_DEBUG__ (or the
\* localStorage item analemmaDebug); _debugEnabled reads them at every call
SetDebug(enabled) ==
  /\ pc = "idle"
  /\ debugEnabled # enabled
  /\ debugEnabled' = enabled
  /\ UNCHANGED <<pc, call, n, points, printedKeys, logged, currentYear,
               app, effect, searches>>

NextDebug ==
  \/ \E c \in {o \in ObserverCalls : o.latitudeSub = 0} : Call(c)
  \/ StepMain
  \/ ReturnMain
  \/ StepInset
  \/ ReturnInset
  \/ \E enabled \in BOOLEAN : SetDebug(enabled)

SpecDebug == InitObserver /\ [][NextDebug]_vars

\* the key of the running call
KeyOf(c) == IF c.fn = "main" THEN MainKey(c) ELSE InsetKey(c)

\* C28: a generator call made while debugging is disabled emits nothing and
\* leaves the de-duplication set unchanged, so that the return of a call made
\* after debugging is enabled emits its summary unless a summary of its key
\* was emitted while debugging was enabled; the set only grows, and a summary
\* is emitted exactly in the step that adds its key to the set.
C28_DisabledCallsLeaveNoTrace ==
  [][/\ (ReturnStep /\ ~debugEnabled) => UNCHANGED <<printedKeys, logged>>
     /\ (ReturnStep /\ debugEnabled /\ KeyOf(call) \notin printedKeys) =>
          /\ logged' = Append(logged, logged'[Len(logged')])
          /\ logged'[Len(logged')].inputs = Inputs(call)
     /\ printedKeys \subseteq printedKeys'
     /\ (logged' # logged) <=> (printedKeys' # printedKeys)
     /\ logged' # logged =>
          /\ ReturnStep /\ debugEnabled
          /\ Len(logged') = Len(logged) + 1
          /\ printedKeys' = printedKeys \cup {KeyOf(call)}
     /\ Cardinality(printedKeys') = Len(logged')]_vars

\* C28 witness: a series has been returned while debugging was disabled and
\* debugging has been enabled since: the set is without its key, while the
\* summary of another call has been emitted
C28_Witness ==
  /\ Returned("inset") /\ Len(points) = 366
  /\ debugEnabled
  /\ InsetKey(call) \notin printedKeys
  /\ Len(logged) = 1 /\ logged[1].series = "main"

\* ---------------------------------------------------------------------------
\* The application: finding the place of the user and searching for places
\* ---------------------------------------------------------------------------

\* the number of searches the user starts
MaxSearches == 2

\* clamp(n, min, max)
clamp(x, min, max) == MathMin[max, MathMax[min, x]]

\* getTimeZoneOffset(lat, lon) in millionths of an hour: the whole hour
\* nearest to lon / 15, or the half hour above its floor when lon / 15 lies
\* within a tenth of an hour of it and nearer to it than to the whole hour,
\* kept within -12 .. 14. The distances are compared as multiples of 1/30 of
\* a millionth of an hour.
getTimeZoneOffset(lat, lon) ==
  LET wholeHour == (2 * lon + 15 * S) \div (30 * S)
      floorHour == lon \div (15 * S)
      wholeHourDiff == Abs[2 * lon - 30 * S * wholeHour]
      halfHourDiff == Abs[2 * lon - 30 * S * floorHour - 15 * S]
      result == IF halfHourDiff < 3 * S /\ halfHourDiff < wholeHourDiff
                THEN floorHour * S + S \div 2
                ELSE wholeHour * S
  IN  MathMax[-12 * S, MathMin[14 * S, result]]

\* geocode(query): what the promise may settle to: null (no match, a response
\* that is not ok, or a failed request), written << >>, or the first match of
\* the search service, written as a sequence of one record
geocode(query) ==
  LET match == [Paris |-> [lat |-> 48856600, lon |-> 2352200,
                           label |-> "Paris, France"],
                Varanasi |-> [lat |-> 25317600, lon |-> 82973900,
                              label |-> "Varanasi, India"]]
  IN  {<< >>} \cup (IF query \in DOMAIN match THEN {<<match[query]>>} ELSE {})

\* the effect run after the first render: it asks the browser for the
\* position, or ends the loading at once where there is no geolocation
Mount(supported) ==
  /\ effect.pc = "mount"
  /\ IF supported
     THEN /\ effect' = [effect EXCEPT !.pc = "getCurrentPosition"]
          /\ UNCHANGED app
     ELSE /\ effect' = [effect EXCEPT !.pc = "done"]
          /\ app' = [app EXCEPT !.isLoadingLocation = FALSE]
  /\ UNCHANGED <<pc, call, n, points, debugEnabled, printedKeys, logged,
                 currentYear, searches>>

\* the success callback of getCurrentPosition up to its await
GeolocationSuccess(lat, lon) ==
  /\ effect.pc = "getCurrentPosition"
  /\ app' = [app EXCEPT !.latitude = lat, !.longitude = lon,
                        !.tzOffsetHours = getTimeZoneOffset(lat, lon)]
  /\ effect' = [pc |-> "reverseGeocode", lat |-> lat, lon |-> lon]
  /\ UNCHANGED <<pc, call, n, points, debugEnabled, printedKeys, logged,
                 currentYear, searches>>

\* a success callback that leaves without setting the timer when the place
\* has no name
ReverseGeocodeLeaving(label) ==
  /\ effect.pc = "reverseGeocode"
  /\ IF label # ""
     THEN /\ app' = [app EXCEPT !.locationLabel = label,
                                !.locationQuery = label]
          /\ effect' = [effect EXCEPT !.pc = "setTimeout"]
     ELSE /\ effect' = [effect EXCEPT !.pc = "done"]
          /\ UNCHANGED app
  /\ UNCHANGED <<pc, call, n, points, debugEnabled, printedKeys, logged,
                 currentYear, searches>>

\* the success callback from the settling of reverseGeocode on: label is what
\* the promise settles to, "" standing for null; the coordinates of the
\* fallback label are printed with toFixed(4)
ReverseGeocodeSettles(label) ==
  LET toFixed4(x) ==
        LET r == (Abs[x] + 50) \div 100
        IN  (IF x < 0 THEN "-" ELSE "") \o ToString(r \div 10000) \o "."
              \o Digits[r % 10000, 4]
      fallbackLabel == "Location: " \o toFixed4(effect.lat) \o "°, "
                         \o toFixed4(effect.lon) \o "°"
      shown == IF label # "" THEN label ELSE fallbackLabel
  IN  /\ effect.pc = "reverseGeocode"
      /\ app' = [app EXCEPT !.locationLabel = shown, !.locationQuery = shown]
      /\ effect' = [effect EXCEPT !.pc = "setTimeout"]
      /\ UNCHANGED <<pc, call, n, points, debugEnabled, printedKeys, logged,
                     currentYear, searches>>

\* the error callback of getCurrentPosition: position denied, unavailable or
\* not found within the timeout of 5000 ms
GeolocationError ==
  /\ effect.pc = "getCurrentPosition"
  /\ effect' = [effect EXCEPT !.pc = "setTimeout"]
  /\ UNCHANGED <<pc, call, n, points, debugEnabled, printedKeys, logged,
                 currentYear, app, searches>>

\* the callback of setTimeout
LoadingTimeout ==
  /\ effect.pc = "setTimeout"
  /\ app' = [app EXCEPT !.isLoadingLocation = FALSE]
  /\ effect' = [effect EXCEPT !.pc = "done"]
  /\ UNCHANGED <<pc, call, n, points, debugEnabled, printedKeys, logged,
                 currentYear, searches>>

\* onChange of the search field; the controls take no pointer events while
\* the location is loading
SetLocationQuery(query) ==
  /\ ~app.isLoadingLocation
  /\ app.locationQuery # query
  /\ app' = [app EXCEPT !.locationQuery = query]
  /\ UNCHANGED <<pc, call, n, points, debugEnabled, printedKeys, logged,
                 currentYear, effect, searches>>

\* onApplyLocation up to its await: the click on Search
onApplyLocation ==
  /\ ~app.isLoadingLocation
  /\ IF app.locationQuery = ""
     THEN /\ app.locationError # "Please enter a location name."
          /\ app' = [app EXCEPT
                       !.locationError = "Please enter a location name."]
          /\ UNCHANGED searches
     ELSE /\ Len(searches) < MaxSearches
          /\ app' = [app EXCEPT !.locationError = "undefined"]
          /\ searches' = Append(searches, [query |-> app.locationQuery,
                                           promise |-> "pending"])
  /\ UNCHANGED <<pc, call, n, points, debugEnabled, printedKeys, logged,
                 currentYear, effect>>

\* onApplyLocation from the settling of geocode on, for the i-th search
GeocodeSettles(i, res) ==
  /\ i \in DOMAIN searches
  /\ searches[i].promise = "pending"
  /\ res \in geocode(searches[i].query)
  /\ IF res # << >>
     THEN /\ app' = [app EXCEPT
                       !.latitude = clamp(res[1].lat, -90 * S, 90 * S),
                       !.longitude = clamp(res[1].lon, -180 * S, 180 * S),
                       !.locationLabel = res[1].label,
                       !.tzOffsetHours =
                          getTimeZoneOffset(res[1].lat, res[1].lon)]
          /\ searches' = [searches EXCEPT ![i].promise = "matched"]
     ELSE /\ app' = [app EXCEPT
                       !.locationError = "No match found, try a clearer query."]
          /\ searches' = [searches EXCEPT ![i].promise = "null"]
  /\ UNCHANGED <<pc, call, n, points, debugEnabled, printedKeys, logged,
                 currentYear, effect>>

NextApp ==
  \/ \E supported \in BOOLEAN : Mount(supported)
  \/ \E place \in {Sydney, <<-160, -77041200>>} :
        GeolocationSuccess(place[1], place[2])
  \/ \E label \in {"", "Sydney, AU"} : ReverseGeocodeSettles(label)
  \/ GeolocationError
  \/ LoadingTimeout
  \/ \E query \in {"", "Paris", "Varanasi"} : SetLocationQuery(query)
  \/ onApplyLocation
  \/ \E i \in 1..MaxSearches :
        \E res \in UNION {geocode(q) : q \in {"Paris", "Varanasi"}} :
           GeocodeSettles(i, res)

\* the application in a browser: the event loop runs every callback that is
\* due (the browser calls one of the two callbacks of getCurrentPosition, a
\* fetch settles, a timer fires); the user is free to do nothing
SpecApp ==
  /\ Init
  /\ [][NextApp]_vars
  /\ WF_vars(\E supported \in BOOLEAN : Mount(supported))
  /\ WF_vars(GeolocationError
               \/ \E place \in {Sydney, <<-160, -77041200>>} :
                     GeolocationSuccess(place[1], place[2]))
  /\ WF_vars(\E label \in {"", "Sydney, AU"} : ReverseGeocodeSettles(label))
  /\ WF_vars(LoadingTimeout)

\* the last search whose response has been applied and what it matched
LastMatched == CHOOSE i \in DOMAIN searches :
  /\ searches[i].promise = "matched"
  /\ \A j \in DOMAIN searches : searches[j].promise = "matched" => j <= i

MatchOf(i) == (CHOOSE res \in geocode(searches[i].query) : res # << >>)[1]

\* C29: when the user starts two searches one after the other, the latitude,
\* the longitude, the time-zone offset and the label shown are those of the
\* most recently started search among those whose match has been applied,
\* in whatever order the responses arrive: the response to an older search
\* does not overwrite the result of a newer one.
C29_NewestSearchShown ==
  (\E i \in DOMAIN searches : searches[i].promise = "matched") =>
     /\ app.locationLabel = MatchOf(LastMatched).label
     /\ app.latitude = MatchOf(LastMatched).lat
     /\ app.longitude = MatchOf(LastMatched).lon
     /\ app.tzOffsetHours =
          getTimeZoneOffset(MatchOf(LastMatched).lat, MatchOf(LastMatched).lon)

====
